---- MODULE Spec2Model ----
(***************************************************************************)
(* Timer / session scheduling of the marlapps Timer app (interval timer    *)
(* and countdown, src/apps/timer/app.js) and of the Breathing app          *)
(* (src/apps/breathing/app.js).                                            *)
(*                                                                         *)
(* Wall-clock time is the variable now (epoch milliseconds).  Every        *)
(* handler of the apps is one action; a handler is written as an operator  *)
(* from the app's memory (a record of the object's fields, the DOM flags   *)
(* it reads back and localStorage) to the memory after the handler, so     *)
(* that handlers that call each other compose as they do in the code.      *)
(***************************************************************************)
EXTENDS Integers, Sequences, FiniteSets, TLC

\* ------------------------------------------------------------------------
\* Bounds of the model
\* ------------------------------------------------------------------------
MaxClockSteps == 22      \* interval timer: the clock runs StartClock .. StartClock + MaxClockSteps*StepMs
MaxCountdownSteps == 12  \* countdown: same, when the countdown's tab is the open one
MaxBreathSteps == 80     \* Breathing app: same, for its own specification
MaxCountdownTotal == 70  \* cap on countdownState.totalTime reached by add-time clicks
MaxWakeLockSteps == 8    \* countdown in a browser with the Screen Wake Lock API: clock steps
MaxPomodoroSeconds == 8  \* Pomodoro app: the clock runs StartClock .. StartClock + 8 s
MaxPomodoroMinutes == 9  \* Pomodoro app over whole sessions: the same, in minutes
MaxAppsSteps == 16       \* every reset of Timer and Breathing: clock steps
MaxLiveSteps == 12       \* undisturbed sessions of Timer and Breathing: clock steps
MaxPhaseCycles == 3      \* getNextPhase: cycles of the sessions it is tried on
MaxAlarms == 1           \* alarms the user adds
MaxAlarmSteps == 4       \* alarms: steps of the clock
MaxAlarmReloads == 2     \* alarms: reloads of the page
MaxWakeLocks == 2        \* cap on wake-lock requests outstanding plus wake locks held

\* ------------------------------------------------------------------------
\* Program constants
\* ------------------------------------------------------------------------
NULL == -1               \* JavaScript null in a numeric field (phaseEndsAt, endAt)
MsPerSec == 1000
SaveThrottleMs == 1000   \* persistRuntimeData: minimum distance of unforced writes
StartClock == 1000       \* Date.now() at the first page load (any positive epoch value)
SecPerMin == 60            \* Pomodoro: durations are minutes
AutoStartDelayMs == 1000   \* Pomodoro: delay of the auto-start of a break
TickPeriodMs == 250      \* period of the setInterval that drives tickInterval and tickCountdown

\* the clock is looked at every second period of that timer
StepMs == 2 * TickPeriodMs

Max(a, b) == IF a >= b THEN a ELSE b
Min(a, b) == IF a <= b THEN a ELSE b

\* Math.ceil(x / 1000) for an integer x of either sign
CeilSeconds(x) == -((-x) \div MsPerSec)

\* variant: Math.ceil((deadline - now) / 1000), without Math.max(0, ...)
SecondsLeftUnclamped(deadline, t) == CeilSeconds(deadline - t)

\* Math.max(0, Math.ceil((deadline - now) / 1000))
SecondsLeft(deadline, t) == Max(0, CeilSeconds(deadline - t))

\* JavaScript truthiness of a numeric-or-null field: null and 0 are falsy
Truthy(x) == x # NULL /\ x # 0

\* Number.isFinite(x) for a field that holds a number or null
IsFinite(x) == x # NULL

\* toBoundedInt / parseIntervalSeconds / parseRounds / coerceInt on an integer
Clamp(v, lo, hi) == Min(hi, Max(lo, v))

\* ------------------------------------------------------------------------
\* Timer app: shapes of the state
\* ------------------------------------------------------------------------
IdleIntervalState ==
  [running |-> FALSE, paused |-> FALSE, currentRound |-> 0, phase |-> "work",
   timeRemaining |-> 0, phaseEndsAt |-> NULL]

IdleCountdownState ==
  [running |-> FALSE, paused |-> FALSE, timeRemaining |-> 0, totalTime |-> 0,
   endAt |-> NULL]

\* runtime.interval === null / runtime.countdown === null in a snapshot
NoIntervalRuntime == [some |-> FALSE] @@ IdleIntervalState
NoCountdownRuntime == [some |-> FALSE, done |-> FALSE] @@ IdleCountdownState

DefaultIntervalSettings == [work |-> 30, rest |-> 10, rounds |-> 8]

\* localStorage.getItem('marlapps-timer') === null; full: setItem throws
\* (the quota is exceeded or storage is denied), so no write changes the snapshot
NoStorage == [present |-> FALSE,
              full |-> FALSE,
              intervalSettings |-> DefaultIntervalSettings,
              runtime |-> [interval |-> NoIntervalRuntime,
                           countdown |-> NoCountdownRuntime,
                           lastCompletedCountdown |-> 0]]

\* disabled flags of the buttons as the page's markup and resetInterval leave them
IdleButtons ==
  [intervalStartBtn |-> FALSE, intervalPauseBtn |-> TRUE,
   countdownStartBtn |-> TRUE, countdownPauseBtn |-> TRUE, countdownRepeatBtn |-> TRUE]

\* ------------------------------------------------------------------------
\* Timer app: persistence
\* ------------------------------------------------------------------------
\* variant: a paused interval timer is not taken for an active one
CaptureRuntimeStateRunningOnly(m) ==
  LET intervalActive == m.intervalState.running
      countdownDone == m.countdownDone
      countdownActive == \/ m.countdownState.running
                         \/ m.countdownState.paused
                         \/ m.countdownState.totalTime > 0
                         \/ countdownDone
  IN [interval |-> IF intervalActive
                   THEN [some |-> TRUE] @@ m.intervalState
                   ELSE NoIntervalRuntime,
      countdown |-> IF countdownActive
                    THEN [some |-> TRUE, done |-> countdownDone] @@ m.countdownState
                    ELSE NoCountdownRuntime,
      lastCompletedCountdown |-> m.lastCompletedCountdown]

CaptureRuntimeState(m) ==
  LET intervalActive == m.intervalState.running \/ m.intervalState.paused
      countdownDone == m.countdownDone
      countdownActive == \/ m.countdownState.running
                         \/ m.countdownState.paused
                         \/ m.countdownState.totalTime > 0
                         \/ countdownDone
  IN [interval |-> IF intervalActive
                   THEN [some |-> TRUE] @@ m.intervalState
                   ELSE NoIntervalRuntime,
      countdown |-> IF countdownActive
                    THEN [some |-> TRUE, done |-> countdownDone] @@ m.countdownState
                    ELSE NoCountdownRuntime,
      lastCompletedCountdown |-> m.lastCompletedCountdown]

\* saveData has no try/catch: when setItem throws, the exception leaves
\* lastRuntimeSaveAt as it was and unwinds the handler that called (thrown)
SaveData(m, t) ==
  IF m.thrown THEN m
  ELSE IF m.storage.full THEN [m EXCEPT !.thrown = TRUE]
  ELSE [m EXCEPT !.storage = [present |-> TRUE,
                              full |-> FALSE,
                              intervalSettings |-> m.intervalSettings,
                              runtime |-> CaptureRuntimeState(m)],
                 !.lastRuntimeSaveAt = t]

\* variant: the throttle applies to forced writes too
PersistRuntimeDataThrottled(m, t, force) ==
  IF t - m.lastRuntimeSaveAt < SaveThrottleMs THEN m ELSE SaveData(m, t)

PersistRuntimeData(m, t, force) ==
  IF ~force /\ t - m.lastRuntimeSaveAt < SaveThrottleMs THEN m ELSE SaveData(m, t)

\* loadData: the validated copy of the stored snapshot (data.intervalSettings, data.runtime)
LoadData(s) ==
  IF ~s.present
  THEN [intervalSettings |-> DefaultIntervalSettings, runtime |-> NoStorage.runtime]
  ELSE
   LET ri == s.runtime.interval
       rc == s.runtime.countdown
   IN [intervalSettings |->
         [work |-> Clamp(s.intervalSettings.work, 5, 3600),
          rest |-> Clamp(s.intervalSettings.rest, 5, 3600),
          rounds |-> Clamp(s.intervalSettings.rounds, 1, 99)],
       runtime |->
         [interval |->
            IF ri.some
            THEN [some |-> TRUE,
                  running |-> ri.running = TRUE,
                  paused |-> ri.paused = TRUE,
                  currentRound |-> Max(0, ri.currentRound),
                  phase |-> IF ri.phase = "rest" THEN "rest" ELSE "work",
                  timeRemaining |-> Max(0, ri.timeRemaining),
                  phaseEndsAt |-> IF IsFinite(ri.phaseEndsAt) THEN ri.phaseEndsAt ELSE NULL]
            ELSE NoIntervalRuntime,
          countdown |->
            IF rc.some
            THEN [some |-> TRUE,
                  running |-> rc.running = TRUE,
                  paused |-> rc.paused = TRUE,
                  timeRemaining |-> Max(0, rc.timeRemaining),
                  totalTime |-> Max(0, rc.totalTime),
                  endAt |-> IF IsFinite(rc.endAt) THEN rc.endAt ELSE NULL,
                  done |-> rc.done = TRUE]
            ELSE NoCountdownRuntime,
          lastCompletedCountdown |-> Max(0, s.runtime.lastCompletedCountdown)]]

\* ------------------------------------------------------------------------
\* Timer app: interval timer
\* ------------------------------------------------------------------------
ResetInterval(m, t, persist) ==
  LET m1 == [m EXCEPT !.intervalTimerInterval = FALSE,
                      !.intervalState = IdleIntervalState,
                      !.btn.intervalStartBtn = FALSE,
                      !.btn.intervalPauseBtn = TRUE]
  IN IF persist THEN PersistRuntimeData(m1, t, TRUE) ELSE m1

RECURSIVE TickIntervalLoop(_, _, _, _, _, _)

\* variant: an if in place of the while, one boundary per call
TickIntervalLoopOnce(st, settings, t, silent, crossed, signals) ==
  IF st.running /\ t >= st.phaseEndsAt
  THEN
    LET left == Append(crossed, <<st.currentRound, st.phase>>)
        beeped == IF silent THEN signals ELSE Append(signals, "phase-beep")
    IN IF st.phase = "work"
       THEN [state |-> [st EXCEPT !.phase = "rest",
                                  !.phaseEndsAt = @ + settings.rest * MsPerSec],
             finished |-> FALSE, crossed |-> left, signals |-> beeped]
       ELSE IF st.currentRound >= settings.rounds
       THEN [state |-> st, finished |-> TRUE, crossed |-> left,
             signals |-> IF silent THEN beeped ELSE Append(beeped, "interval-complete")]
       ELSE [state |-> [st EXCEPT !.currentRound = @ + 1,
                                  !.phase = "work",
                                  !.phaseEndsAt = @ + settings.work * MsPerSec],
             finished |-> FALSE, crossed |-> left, signals |-> beeped]
  ELSE [state |-> st, finished |-> FALSE, crossed |-> crossed, signals |-> signals]

\* the while loop of tickInterval; the result carries the phases it left
\* (crossed) and the cues it played (signals)
TickIntervalLoop(st, settings, t, silent, crossed, signals) ==
  IF st.running /\ t >= st.phaseEndsAt
  THEN
    LET left == Append(crossed, <<st.currentRound, st.phase>>)
        beeped == IF silent THEN signals ELSE Append(signals, "phase-beep")
    IN IF st.phase = "work"
       THEN TickIntervalLoop(
              [st EXCEPT !.phase = "rest",
                         !.phaseEndsAt = @ + settings.rest * MsPerSec],
              settings, t, silent, left, beeped)
       ELSE IF st.currentRound >= settings.rounds
       THEN [state |-> st, finished |-> TRUE, crossed |-> left,
             signals |-> IF silent THEN beeped ELSE Append(beeped, "interval-complete")]
       ELSE TickIntervalLoop(
              [st EXCEPT !.currentRound = @ + 1,
                         !.phase = "work",
                         !.phaseEndsAt = @ + settings.work * MsPerSec],
              settings, t, silent, left, beeped)
  ELSE [state |-> st, finished |-> FALSE, crossed |-> crossed, signals |-> signals]

\* variant: the deadline is rewritten from the rounded remaining seconds
TickIntervalRebased(m, t, silent, persist) ==
  IF ~m.intervalState.running \/ ~Truthy(m.intervalState.phaseEndsAt)
  THEN m
  ELSE
    LET r == TickIntervalLoop(m.intervalState, m.intervalSettings, t, silent, <<>>, <<>>)
        m1 == [m EXCEPT !.crossed = @ \o r.crossed, !.signals = @ \o r.signals]
    IN IF r.finished
       THEN ResetInterval(m1, t, persist)
       ELSE
         LET left == SecondsLeft(r.state.phaseEndsAt, t)
             m2 == [m1 EXCEPT !.intervalState =
                       [r.state EXCEPT !.timeRemaining = left,
                                       !.phaseEndsAt = t + left * MsPerSec]]
         IN IF persist THEN PersistRuntimeData(m2, t, FALSE) ELSE m2

TickInterval(m, t, silent, persist) ==
  IF ~m.intervalState.running \/ ~Truthy(m.intervalState.phaseEndsAt)
  THEN m
  ELSE
    LET r == TickIntervalLoop(m.intervalState, m.intervalSettings, t, silent, <<>>, <<>>)
        m1 == [m EXCEPT !.crossed = @ \o r.crossed, !.signals = @ \o r.signals]
    IN IF r.finished
       THEN ResetInterval(m1, t, persist)
       ELSE
         LET m2 == [m1 EXCEPT !.intervalState =
                       [r.state EXCEPT !.timeRemaining = SecondsLeft(r.state.phaseEndsAt, t)]]
         IN IF persist THEN PersistRuntimeData(m2, t, FALSE) ELSE m2

StartInterval(m, t) ==
  LET st == IF m.intervalState.paused
            THEN [m.intervalState EXCEPT
                    !.paused = FALSE,
                    !.phaseEndsAt = t + m.intervalState.timeRemaining * MsPerSec]
            ELSE [running |-> TRUE, paused |-> FALSE, currentRound |-> 1,
                  phase |-> "work", timeRemaining |-> m.intervalSettings.work,
                  phaseEndsAt |-> t + m.intervalSettings.work * MsPerSec]
      m1 == [m EXCEPT !.intervalState = [st EXCEPT !.running = TRUE],
                      !.btn.intervalStartBtn = TRUE,
                      !.btn.intervalPauseBtn = FALSE,
                      !.intervalTimerInterval = TRUE]
  IN PersistRuntimeData(TickInterval(m1, t, FALSE, TRUE), t, TRUE)

PauseInterval(m, t) ==
  LET st == [m.intervalState EXCEPT
               !.running = FALSE,
               !.paused = TRUE,
               !.timeRemaining = IF Truthy(m.intervalState.phaseEndsAt)
                                 THEN SecondsLeft(m.intervalState.phaseEndsAt, t)
                                 ELSE @]
      m1 == [m EXCEPT !.intervalState = st,
                      !.btn.intervalStartBtn = FALSE,
                      !.btn.intervalPauseBtn = TRUE,
                      !.intervalTimerInterval = FALSE]
  IN PersistRuntimeData(m1, t, TRUE)

\* saveIntervalSettings with the three form fields holding the integers of inp
SaveIntervalSettings(m, t, inp) ==
  SaveData([m EXCEPT !.intervalSettings =
               [work |-> Clamp(inp.work, 5, 3600),
                rest |-> Clamp(inp.rest, 5, 3600),
                rounds |-> Clamp(inp.rounds, 1, 99)]], t)

\* ------------------------------------------------------------------------
\* Timer app: screen wake lock
\* ------------------------------------------------------------------------
\* acquireWakeLock up to its await: the request is sent and stays outstanding
\* (wlPending) until the browser settles it; this.wakeLock is still null
AcquireWakeLock(m) ==
  IF \/ ~m.wakeLockApi
     \/ ~m.countdownState.running
     \/ ~m.appVisible
     \/ ~m.docVisible
     \/ m.wakeLock
  THEN m
  ELSE [m EXCEPT !.wlPending = @ + 1]

\* releaseWakeLock: the sentinel this.wakeLock refers to is released
ReleaseWakeLock(m) ==
  IF ~m.wakeLock THEN m
  ELSE [m EXCEPT !.wakeLock = FALSE, !.wlHeld = @ - 1]

\* the rest of acquireWakeLock once the request is granted: the new sentinel
\* is held and this.wakeLock refers to it, whatever it referred to before
WakeLockResolved(m) ==
  [m EXCEPT !.wlPending = @ - 1, !.wlHeld = @ + 1, !.wakeLock = TRUE]

\* the request failed: the catch block swallows the rejection
WakeLockFailed(m) == [m EXCEPT !.wlPending = @ - 1]

\* the document's visibility became docVis; a hidden document loses every
\* screen wake lock, and each sentinel's 'release' listener clears this.wakeLock
DocumentVisibility(m, docVis) ==
  [m EXCEPT !.docVisible = docVis,
            !.wlHeld = IF docVis THEN @ ELSE 0,
            !.wakeLock = IF docVis THEN @ ELSE FALSE]

\* ------------------------------------------------------------------------
\* Timer app: countdown
\* ------------------------------------------------------------------------
\* variant: Math.floor in place of Math.ceil
TickCountdownFloor(m, t, silent, persist) ==
  IF ~m.countdownState.running \/ ~Truthy(m.countdownState.endAt)
  THEN m
  ELSE
    LET left == Max(0, (m.countdownState.endAt - t) \div MsPerSec)
        m1 == [m EXCEPT !.countdownState.timeRemaining = left]
        m2 == IF persist THEN PersistRuntimeData(m1, t, FALSE) ELSE m1
    IN IF m2.thrown THEN m2
       ELSE IF left <= 0
       THEN
         LET m3 == ReleaseWakeLock(
                     [m2 EXCEPT !.countdownInterval = FALSE,
                                !.countdownState.running = FALSE,
                                !.countdownState.endAt = NULL,
                                !.lastCompletedCountdown = m2.countdownState.totalTime,
                                !.btn.countdownStartBtn = TRUE,
                                !.btn.countdownPauseBtn = TRUE,
                                !.btn.countdownRepeatBtn = FALSE,
                                !.countdownDone = TRUE,
                                !.signals = IF silent THEN @
                                            ELSE Append(@, "countdown-complete")])
         IN IF persist THEN PersistRuntimeData(m3, t, TRUE) ELSE m3
       ELSE m2

\* variant: completes on left < 0 in place of left <= 0
TickCountdownStrict(m, t, silent, persist) ==
  IF ~m.countdownState.running \/ ~Truthy(m.countdownState.endAt)
  THEN m
  ELSE
    LET left == SecondsLeft(m.countdownState.endAt, t)
        m1 == [m EXCEPT !.countdownState.timeRemaining = left]
        m2 == IF persist THEN PersistRuntimeData(m1, t, FALSE) ELSE m1
    IN IF m2.thrown THEN m2
       ELSE IF left < 0
       THEN
         LET m3 == ReleaseWakeLock(
                     [m2 EXCEPT !.countdownInterval = FALSE,
                                !.countdownState.running = FALSE,
                                !.countdownState.endAt = NULL,
                                !.lastCompletedCountdown = m2.countdownState.totalTime,
                                !.btn.countdownStartBtn = TRUE,
                                !.btn.countdownPauseBtn = TRUE,
                                !.btn.countdownRepeatBtn = FALSE,
                                !.countdownDone = TRUE,
                                !.signals = IF silent THEN @
                                            ELSE Append(@, "countdown-complete")])
         IN IF persist THEN PersistRuntimeData(m3, t, TRUE) ELSE m3
       ELSE m2

TickCountdown(m, t, silent, persist) ==
  IF ~m.countdownState.running \/ ~Truthy(m.countdownState.endAt)
  THEN m
  ELSE
    LET left == SecondsLeft(m.countdownState.endAt, t)
        m1 == [m EXCEPT !.countdownState.timeRemaining = left]
        m2 == IF persist THEN PersistRuntimeData(m1, t, FALSE) ELSE m1
    IN IF m2.thrown THEN m2
       ELSE IF left <= 0
       THEN
         LET m3 == ReleaseWakeLock(
                     [m2 EXCEPT !.countdownInterval = FALSE,
                                !.countdownState.running = FALSE,
                                !.countdownState.endAt = NULL,
                                !.lastCompletedCountdown = m2.countdownState.totalTime,
                                !.btn.countdownStartBtn = TRUE,
                                !.btn.countdownPauseBtn = TRUE,
                                !.btn.countdownRepeatBtn = FALSE,
                                !.countdownDone = TRUE,
                                !.signals = IF silent THEN @
                                            ELSE Append(@, "countdown-complete")])
         IN IF persist THEN PersistRuntimeData(m3, t, TRUE) ELSE m3
       ELSE m2

\* setCountdownDuration; addRecentCountdown in it changes no timer state but saves
SetCountdownDuration(m, t, totalSeconds) ==
  LET m1 == [m EXCEPT !.countdownState =
                         [running |-> FALSE, paused |-> FALSE,
                          timeRemaining |-> totalSeconds, totalTime |-> totalSeconds,
                          endAt |-> NULL],
                      !.btn.countdownStartBtn = FALSE,
                      !.btn.countdownPauseBtn = TRUE,
                      !.btn.countdownRepeatBtn = (m.lastCompletedCountdown <= 0),
                      !.countdownInterval = FALSE,
                      !.countdownDone = FALSE]
  IN PersistRuntimeData(SaveData(ReleaseWakeLock(m1), t), t, TRUE)

\* variant: the deadline of a running countdown is left where it was
AddCountdownTimeNoDeadline(m, t, seconds) ==
  IF seconds <= 0
  THEN m
  ELSE
    LET cs == m.countdownState
        st == [cs EXCEPT !.timeRemaining = @ + seconds,
                         !.totalTime = @ + seconds]
        m1 == [m EXCEPT !.countdownState = st,
                        !.btn.countdownStartBtn = IF ~cs.running THEN FALSE ELSE @]
    IN PersistRuntimeData(m1, t, TRUE)

AddCountdownTime(m, t, seconds) ==
  IF seconds <= 0
  THEN m
  ELSE
    LET cs == m.countdownState
        st == [cs EXCEPT !.timeRemaining = @ + seconds,
                         !.totalTime = @ + seconds,
                         !.endAt = IF cs.running /\ Truthy(cs.endAt)
                                   THEN @ + seconds * MsPerSec ELSE @]
        m1 == [m EXCEPT !.countdownState = st,
                        !.btn.countdownStartBtn = IF ~cs.running THEN FALSE ELSE @]
    IN PersistRuntimeData(m1, t, TRUE)

\* variant: no look at timeRemaining before the countdown is started
StartCountdownUnchecked(m, t) ==
  LET m1 == [m EXCEPT !.countdownState.running = TRUE,
                      !.countdownState.paused = FALSE,
                      !.countdownState.endAt = t + m.countdownState.timeRemaining * MsPerSec,
                      !.btn.countdownStartBtn = TRUE,
                      !.btn.countdownPauseBtn = FALSE,
                      !.btn.countdownRepeatBtn = TRUE,
                      !.countdownDone = FALSE,
                      !.countdownInterval = TRUE]
  IN PersistRuntimeData(TickCountdown(AcquireWakeLock(m1), t, FALSE, TRUE), t, TRUE)

StartCountdown(m, t) ==
  IF m.countdownState.timeRemaining <= 0 /\ ~m.countdownState.paused
  THEN m
  ELSE
    LET m1 == [m EXCEPT !.countdownState.running = TRUE,
                        !.countdownState.paused = FALSE,
                        !.countdownState.endAt = t + m.countdownState.timeRemaining * MsPerSec,
                        !.btn.countdownStartBtn = TRUE,
                        !.btn.countdownPauseBtn = FALSE,
                        !.btn.countdownRepeatBtn = TRUE,
                        !.countdownDone = FALSE,
                        !.countdownInterval = TRUE]
    IN PersistRuntimeData(TickCountdown(AcquireWakeLock(m1), t, FALSE, TRUE), t, TRUE)

RepeatLastCountdown(m, t) ==
  IF m.lastCompletedCountdown <= 0
  THEN m
  ELSE LET m1 == SetCountdownDuration(m, t, m.lastCompletedCountdown)
       IN IF m1.thrown THEN m1 ELSE StartCountdown(m1, t)

PauseCountdown(m, t) ==
  LET cs == m.countdownState
      st == [cs EXCEPT !.running = FALSE,
                       !.paused = TRUE,
                       !.timeRemaining = IF Truthy(cs.endAt)
                                         THEN SecondsLeft(cs.endAt, t) ELSE @,
                       !.endAt = NULL]
      m1 == [m EXCEPT !.countdownState = st,
                      !.btn.countdownStartBtn = FALSE,
                      !.btn.countdownPauseBtn = TRUE,
                      !.btn.countdownRepeatBtn = (m.lastCompletedCountdown <= 0),
                      !.countdownInterval = FALSE]
  IN PersistRuntimeData(ReleaseWakeLock(m1), t, TRUE)

\* variant: a reset of a countdown that is not started forgets its duration
ResetCountdownForgetful(m, t) ==
  LET cs == m.countdownState
      total == IF cs.running \/ cs.paused \/ m.countdownDone THEN cs.totalTime ELSE 0
      m1 == [m EXCEPT !.countdownInterval = FALSE,
                      !.countdownState =
                         [cs EXCEPT !.timeRemaining = total,
                                    !.totalTime = total,
                                    !.running = FALSE,
                                    !.paused = FALSE,
                                    !.endAt = NULL],
                      !.btn.countdownStartBtn = (total <= 0),
                      !.btn.countdownPauseBtn = TRUE,
                      !.btn.countdownRepeatBtn = (m.lastCompletedCountdown <= 0),
                      !.countdownDone = FALSE]
  IN PersistRuntimeData(ReleaseWakeLock(m1), t, TRUE)

ResetCountdown(m, t) ==
  LET cs == m.countdownState
      m1 == [m EXCEPT !.countdownInterval = FALSE,
                      !.countdownState =
                         [cs EXCEPT !.timeRemaining = cs.totalTime,
                                    !.running = FALSE,
                                    !.paused = FALSE,
                                    !.endAt = NULL],
                      !.btn.countdownStartBtn = (cs.totalTime <= 0),
                      !.btn.countdownPauseBtn = TRUE,
                      !.btn.countdownRepeatBtn = (m.lastCompletedCountdown <= 0),
                      !.countdownDone = FALSE]
  IN PersistRuntimeData(ReleaseWakeLock(m1), t, TRUE)

\* ------------------------------------------------------------------------
\* Timer app: visibility
\* ------------------------------------------------------------------------
\* variant: the catch-up ticks are ordinary ticks
HandleVisibilityChangeLoud(m, t, docVis) ==
  IF ~m.appVisible
  THEN PersistRuntimeData(ReleaseWakeLock(m), t, TRUE)
  ELSE
    LET m1 == IF docVis /\ m.countdownState.running
              THEN LET ticked == TickCountdown(m, t, FALSE, TRUE)
                   IN IF ticked.thrown THEN ticked ELSE AcquireWakeLock(ticked)
              ELSE IF ~docVis THEN PersistRuntimeData(ReleaseWakeLock(m), t, TRUE)
              ELSE m
    IN IF m1.thrown THEN m1
       ELSE IF docVis /\ m1.intervalState.running
       THEN TickInterval(m1, t, FALSE, TRUE)
       ELSE m1

\* handleVisibilityChange with document.visibilityState === 'visible' iff docVis
HandleVisibilityChange(m, t, docVis) ==
  IF ~m.appVisible
  THEN PersistRuntimeData(ReleaseWakeLock(m), t, TRUE)
  ELSE
    LET m1 == IF docVis /\ m.countdownState.running
              THEN LET ticked == TickCountdown(m, t, TRUE, TRUE)
                   IN IF ticked.thrown THEN ticked ELSE AcquireWakeLock(ticked)
              ELSE IF ~docVis THEN PersistRuntimeData(ReleaseWakeLock(m), t, TRUE)
              ELSE m
    IN IF m1.thrown THEN m1
       ELSE IF docVis /\ m1.intervalState.running
       THEN TickInterval(m1, t, TRUE, TRUE)
       ELSE m1

HandleAppVisibility(m, t, visible, docVis) ==
  LET m1 == [m EXCEPT !.appVisible = visible]
      m2 == IF ~visible THEN PersistRuntimeData(m1, t, TRUE) ELSE m1
  IN IF m2.thrown THEN m2 ELSE HandleVisibilityChange(m2, t, docVis)

\* ------------------------------------------------------------------------
\* Timer app: construction
\* ------------------------------------------------------------------------
\* the browser the page runs in: 'wakeLock' in navigator
VARIABLE wakeLockApi

RestoreRuntimeState(m, t, runtime) ==
  LET si == runtime.interval
      sc == runtime.countdown
      canRunI == si.running = TRUE /\ IsFinite(si.phaseEndsAt)
      canRunC == sc.running = TRUE /\ IsFinite(sc.endAt)
      m1 == [m EXCEPT
               !.lastCompletedCountdown = Max(0, runtime.lastCompletedCountdown),
               !.intervalState =
                  IF si.some
                  THEN [running |-> canRunI,
                        paused |-> si.paused = TRUE /\ ~canRunI,
                        currentRound |-> Max(0, si.currentRound),
                        phase |-> IF si.phase = "rest" THEN "rest" ELSE "work",
                        timeRemaining |-> Max(0, si.timeRemaining),
                        phaseEndsAt |-> IF canRunI THEN si.phaseEndsAt ELSE NULL]
                  ELSE @,
               !.countdownState =
                  IF sc.some
                  THEN [running |-> canRunC,
                        paused |-> sc.paused = TRUE /\ ~canRunC,
                        timeRemaining |-> Max(0, sc.timeRemaining),
                        totalTime |-> Max(0, sc.totalTime),
                        endAt |-> IF canRunC THEN sc.endAt ELSE NULL]
                  ELSE @,
               !.countdownDone = IF sc.some /\ sc.done = TRUE THEN TRUE ELSE @]
      \* interval branch
      m2 == IF m1.intervalState.running
            THEN LET a == [m1 EXCEPT !.btn.intervalStartBtn = TRUE,
                                     !.btn.intervalPauseBtn = FALSE,
                                     !.intervalTimerInterval = FALSE]
                     b == TickInterval(a, t, TRUE, FALSE)
                 IN [b EXCEPT !.intervalTimerInterval = b.intervalState.running]
            ELSE IF m1.intervalState.paused
            THEN [m1 EXCEPT !.btn.intervalStartBtn = FALSE,
                            !.btn.intervalPauseBtn = TRUE]
            ELSE m1
      \* countdown branch
      m3 == IF m2.countdownState.running
            THEN LET a == [m2 EXCEPT !.btn.countdownStartBtn = TRUE,
                                     !.btn.countdownPauseBtn = FALSE,
                                     !.btn.countdownRepeatBtn = TRUE,
                                     !.countdownInterval = FALSE]
                     b == TickCountdown(a, t, TRUE, FALSE)
                 IN IF b.countdownState.running
                    THEN AcquireWakeLock([b EXCEPT !.countdownInterval = TRUE])
                    ELSE b
            ELSE [m2 EXCEPT
                    !.countdownInterval = FALSE,
                    !.btn.countdownPauseBtn = TRUE,
                    !.btn.countdownStartBtn =
                       IF m2.countdownState.paused THEN FALSE
                       ELSE IF m2.countdownDone THEN TRUE
                       ELSE m2.countdownState.totalTime <= 0,
                    !.btn.countdownRepeatBtn = (m2.lastCompletedCountdown <= 0)]
  IN PersistRuntimeData(m3, t, TRUE)

\* variant: a running timer is restored from its saved remaining seconds,
\* counted from the time of loading
ConstructorFromRemaining(s, t) ==
  LET data == LoadData(s)
      rt == [data.runtime EXCEPT
               !.interval.phaseEndsAt =
                  IF data.runtime.interval.running
                  THEN t + data.runtime.interval.timeRemaining * MsPerSec ELSE @,
               !.countdown.endAt =
                  IF data.runtime.countdown.running
                  THEN t + data.runtime.countdown.timeRemaining * MsPerSec ELSE @]
      m0 == [intervalSettings |-> data.intervalSettings,
             intervalState |-> IdleIntervalState,
             countdownState |-> IdleCountdownState,
             countdownDone |-> FALSE,
             lastCompletedCountdown |-> 0,
             lastRuntimeSaveAt |-> 0,
             intervalTimerInterval |-> FALSE,
             countdownInterval |-> FALSE,
             btn |-> IdleButtons,
             appVisible |-> TRUE,
             storage |-> s,
             thrown |-> FALSE,
             wakeLockApi |-> wakeLockApi,
             docVisible |-> TRUE,
             wakeLock |-> FALSE,
             wlPending |-> 0,
             wlHeld |-> 0,
             crossed |-> <<>>,
             signals |-> <<>>]
  IN RestoreRuntimeState(m0, t, rt)

\* new TimerApp() at time t over the stored snapshot s
Constructor(s, t) ==
  LET data == LoadData(s)
      m0 == [intervalSettings |-> data.intervalSettings,
             intervalState |-> IdleIntervalState,
             countdownState |-> IdleCountdownState,
             countdownDone |-> FALSE,
             lastCompletedCountdown |-> 0,
             lastRuntimeSaveAt |-> 0,
             intervalTimerInterval |-> FALSE,
             countdownInterval |-> FALSE,
             btn |-> IdleButtons,
             appVisible |-> TRUE,
             storage |-> s,
             thrown |-> FALSE,
             wakeLockApi |-> wakeLockApi,
             docVisible |-> TRUE,
             wakeLock |-> FALSE,
             wlPending |-> 0,
             wlHeld |-> 0,
             crossed |-> <<>>,
             signals |-> <<>>]
  IN RestoreRuntimeState(m0, t, data.runtime)

\* ------------------------------------------------------------------------
\* Breathing app
\* ------------------------------------------------------------------------
PhaseKeys == <<"inhale", "holdIn", "exhale", "holdOut">>   \* this.phases, index 0..3
NumPhases == Len(PhaseKeys)

\* this.session.durations[this.phases[i].key]
DurationOf(durations, i) == durations[PhaseKeys[i + 1]]

Techniques ==
  "box" :> [inhale |-> 4, holdIn |-> 4, exhale |-> 4, holdOut |-> 4]
  @@ "balanced" :> [inhale |-> 5, holdIn |-> 5, exhale |-> 5, holdOut |-> 5]
  @@ "four-seven-eight" :> [inhale |-> 4, holdIn |-> 7, exhale |-> 8, holdOut |-> 0]

NoDurations == [inhale |-> 0, holdIn |-> 0, exhale |-> 0, holdOut |-> 0]   \* durations: null

CreateIdleSession ==
  [active |-> FALSE, paused |-> FALSE, cycle |-> 0, totalCycles |-> 0,
   phaseIndex |-> -1, phaseEndsAt |-> 0, sessionEndsAt |-> 0,
   phaseRemainingMs |-> 0, sessionRemainingMs |-> 0, durations |-> NoDurations]

BreathFallback ==
  [technique |-> "box", cycles |-> 8, durations |-> Techniques["box"]]

\* localStorage.getItem('marlapps-breathing') === null
NoBreathStorage == [present |-> FALSE] @@ BreathFallback

CoerceDurations(d) ==
  [inhale |-> Clamp(d.inhale, 1, 30),
   holdIn |-> Clamp(d.holdIn, 0, 30),
   exhale |-> Clamp(d.exhale, 1, 30),
   holdOut |-> Clamp(d.holdOut, 0, 30)]

BreathLoadData(s) ==
  IF ~s.present
  THEN BreathFallback
  ELSE [technique |-> IF s.technique \in DOMAIN Techniques THEN s.technique
                      ELSE BreathFallback.technique,
        cycles |-> Clamp(s.cycles, 1, 60),
        durations |-> CoerceDurations(s.durations)]

BreathSaveData(b) ==
  [b EXCEPT !.storage = [present |-> TRUE] @@ b.data]

ReadDurationsFromInputs(b) == CoerceDurations(b.inputs.durations)

HasActiveDuration(durations) ==
  \E k \in DOMAIN durations : durations[k] > 0

\* -1 when no phase has a positive duration
FindFirstPhaseIndex(durations) ==
  IF \E i \in 0..(NumPhases - 1) : DurationOf(durations, i) > 0
  THEN CHOOSE i \in 0..(NumPhases - 1) :
         /\ DurationOf(durations, i) > 0
         /\ \A j \in 0..(i - 1) : DurationOf(durations, j) <= 0
  ELSE -1

\* the for loop of getNextPhase from iteration step on; found = FALSE is null
RECURSIVE GetNextPhaseFrom(_, _, _, _)
GetNextPhaseFrom(sess, cycle, phaseIndex, step) ==
  IF step >= NumPhases * 2
  THEN [found |-> FALSE, cycle |-> 0, phaseIndex |-> -1]
  ELSE
    LET raw == phaseIndex + step + 1
        nextIndex == raw % NumPhases
        nextCycle == cycle + (raw \div NumPhases)
    IN IF nextCycle > sess.totalCycles
       THEN [found |-> FALSE, cycle |-> 0, phaseIndex |-> -1]
       ELSE IF DurationOf(sess.durations, nextIndex) > 0
       THEN [found |-> TRUE, cycle |-> nextCycle, phaseIndex |-> nextIndex]
       ELSE GetNextPhaseFrom(sess, cycle, phaseIndex, step + 1)

\* variant: the next phase in order, whatever its duration
GetNextPhaseNoSkip(sess, cycle, phaseIndex) ==
  LET raw == phaseIndex + 1
      nextCycle == cycle + (raw \div NumPhases)
  IN IF nextCycle > sess.totalCycles
     THEN [found |-> FALSE, cycle |-> 0, phaseIndex |-> -1]
     ELSE [found |-> TRUE, cycle |-> nextCycle, phaseIndex |-> raw % NumPhases]

GetNextPhase(sess, cycle, phaseIndex) == GetNextPhaseFrom(sess, cycle, phaseIndex, 0)

EnterPhase(sess, phaseIndex, t) ==
  [sess EXCEPT !.phaseIndex = phaseIndex,
               !.phaseEndsAt = t + DurationOf(sess.durations, phaseIndex) * MsPerSec]

\* updateControls: disabled flags of the start and pause buttons
UpdateControls(b) ==
  [b EXCEPT !.btn = IF b.session.active /\ ~b.session.paused
                    THEN [startBtn |-> TRUE, pauseBtn |-> FALSE]
                    ELSE [startBtn |-> FALSE, pauseBtn |-> TRUE]]

\* durations with no phase above 0; readDurationsFromInputs cannot return
\* them, it clamps inhale and exhale to 1..30
ZeroDurations == [inhale |-> 0, holdIn |-> 0, exhale |-> 0, holdOut |-> 0]

\* startSession from the point where readDurationsFromInputs has returned durations
StartSessionWith(b, t, durations) ==
  LET totalCycles == Clamp(b.inputs.cycles, 1, 60)
  IN IF ~HasActiveDuration(durations)
     THEN b
     ELSE
       LET b1 == BreathSaveData([b EXCEPT !.data.cycles = totalCycles,
                                          !.data.durations = durations])
           cycleSeconds == durations.inhale + durations.holdIn
                           + durations.exhale + durations.holdOut
           totalMs == cycleSeconds * totalCycles * MsPerSec
           initialPhaseIndex == FindFirstPhaseIndex(durations)
           sess == [CreateIdleSession EXCEPT !.active = TRUE,
                                             !.totalCycles = totalCycles,
                                             !.cycle = 1,
                                             !.durations = durations,
                                             !.sessionEndsAt = t + totalMs]
       IN IF totalMs <= 0
          THEN b1
          ELSE IF initialPhaseIndex = -1
          THEN [b1 EXCEPT !.ticker = FALSE, !.session = CreateIdleSession]
          ELSE UpdateControls([b1 EXCEPT !.session = EnterPhase(sess, initialPhaseIndex, t),
                                         !.ticker = TRUE])

StartSession(b, t) == StartSessionWith(b, t, ReadDurationsFromInputs(b))

PauseSession(b, t) ==
  IF ~b.session.active \/ b.session.paused
  THEN b
  ELSE UpdateControls(
         [b EXCEPT !.session.phaseRemainingMs = Max(0, b.session.phaseEndsAt - t),
                   !.session.sessionRemainingMs = Max(0, b.session.sessionEndsAt - t),
                   !.session.paused = TRUE,
                   !.ticker = FALSE])

\* variant: the deadline of the phase is left where it was before the pause
ResumeSessionStaleDeadline(b, t) ==
  IF ~b.session.active \/ ~b.session.paused
  THEN b
  ELSE UpdateControls(
         [b EXCEPT !.session.sessionEndsAt = t + b.session.sessionRemainingMs,
                   !.session.paused = FALSE,
                   !.ticker = TRUE])

ResumeSession(b, t) ==
  IF ~b.session.active \/ ~b.session.paused
  THEN b
  ELSE UpdateControls(
         [b EXCEPT !.session.phaseEndsAt = t + b.session.phaseRemainingMs,
                   !.session.sessionEndsAt = t + b.session.sessionRemainingMs,
                   !.session.paused = FALSE,
                   !.ticker = TRUE])

\* variant: the session is cleared, the ticker is left scheduled
ResetSessionKeepTicker(b) ==
  UpdateControls([b EXCEPT !.session = CreateIdleSession])

\* clearTicker: the 100 ms ticker is cancelled
ClearTicker(b) == [b EXCEPT !.ticker = FALSE]

ResetSession(b) ==
  UpdateControls([b EXCEPT !.ticker = FALSE, !.session = CreateIdleSession])

CompleteSession(b) ==
  UpdateControls([b EXCEPT !.ticker = FALSE, !.session = CreateIdleSession])

\* variant: the guard looks at active alone
TickIgnoresPause(b, t) ==
  IF ~b.session.active
  THEN b
  ELSE IF t >= b.session.phaseEndsAt
  THEN LET next == GetNextPhase(b.session, b.session.cycle, b.session.phaseIndex)
       IN IF ~next.found
          THEN CompleteSession(b)
          ELSE [b EXCEPT !.session =
                  EnterPhase([b.session EXCEPT !.cycle = next.cycle], next.phaseIndex, t)]
  ELSE b

Tick(b, t) ==
  IF ~b.session.active \/ b.session.paused
  THEN b
  ELSE IF t >= b.session.phaseEndsAt
  THEN LET next == GetNextPhase(b.session, b.session.cycle, b.session.phaseIndex)
       IN IF ~next.found
          THEN CompleteSession(b)
          ELSE [b EXCEPT !.session =
                  EnterPhase([b.session EXCEPT !.cycle = next.cycle], next.phaseIndex, t)]
  ELSE b

\* the technique select changes to technique
TechniqueChange(b, technique) ==
  LET b1 == [b EXCEPT !.inputs.technique = technique,
                      !.inputs.durations = Techniques[technique]]
  IN BreathSaveData([b1 EXCEPT !.data.technique = technique,
                               !.data.durations = ReadDurationsFromInputs(b1)])

\* onDurationChange after the cycles and duration fields were set to cycles, durations
DurationChange(b, cycles, durations) ==
  LET b1 == [b EXCEPT !.inputs.cycles = cycles, !.inputs.durations = durations]
  IN BreathSaveData([b1 EXCEPT !.data.cycles = Clamp(cycles, 1, 60),
                               !.data.durations = ReadDurationsFromInputs(b1)])

\* new BreathingApp() over the stored settings s
BreathConstructor(s) ==
  LET data == BreathLoadData(s)
  IN [data |-> data,
      inputs |-> data,
      session |-> CreateIdleSession,
      ticker |-> FALSE,
      btn |-> [startBtn |-> FALSE, pauseBtn |-> TRUE],
      storage |-> s]

\* ------------------------------------------------------------------------
\* Pomodoro app
\* ------------------------------------------------------------------------
PomDefaultSettings ==
  [targetPomodoros |-> 4, workDuration |-> 25, shortBreakDuration |-> 5,
   longBreakDuration |-> 15, autoStartBreaks |-> FALSE]

\* defaultState of loadState at time t
PomDefaultState(t) ==
  [timeRemaining |-> 25 * SecPerMin, sessionType |-> "work", pomodoroCount |-> 1,
   totalWorkSessions |-> 0, isActive |-> FALSE, lastUpdated |-> t,
   targetEndAt |-> NULL]

\* localStorage['marlapps-pomodoro-timer'] by the kind of its text: no item,
\* text that is not JSON, the JSON null, a JSON array, a JSON scalar, or the
\* object saveData writes (settings and state count for that kind only)
PomNoStorage ==
  [kind |-> "missing", settings |-> PomDefaultSettings, state |-> PomDefaultState(0)]

\* loadData has no try/catch: JSON.parse throws on text that is not JSON, and
\* the callers' data.settings / data.state / data.history throw on null
PomLoadThrows(s) == s.kind \in {"invalid", "null"}

PomLoadSettings(s) ==
  IF s.kind = "object" THEN s.settings ELSE PomDefaultSettings

PomLoadState(s, t) ==
  IF s.kind # "object"
  THEN PomDefaultState(t)
  ELSE
    LET st == s.state
        left == IF st.isActive /\ IsFinite(st.targetEndAt)
                THEN SecondsLeft(st.targetEndAt, t)
                ELSE IF st.isActive
                THEN Max(0, st.timeRemaining - ((t - st.lastUpdated) \div MsPerSec))
                ELSE st.timeRemaining
        count == IF st.pomodoroCount < 1 THEN 1 ELSE st.pomodoroCount
    IN [st EXCEPT !.timeRemaining = left,
                  !.pomodoroCount = count,
                  !.totalWorkSessions = IF @ < 0 THEN Max(0, count - 1) ELSE @]

PomSaveData(p) ==
  [p EXCEPT !.storage = [kind |-> "object", settings |-> p.settings, state |-> p.state]]

PomSaveState(p, t) == PomSaveData([p EXCEPT !.state.lastUpdated = t])

GetTargetPomodoros(p) == Clamp(p.settings.targetPomodoros, 1, 30)

\* getDurationForSession, in minutes
GetDurationForSession(p) ==
  IF p.state.sessionType = "work" THEN p.settings.workDuration
  ELSE IF p.state.sessionType = "shortBreak" THEN p.settings.shortBreakDuration
  ELSE p.settings.longBreakDuration

PauseTimer(p, t) ==
  PomSaveState(
    [p EXCEPT !.state.isActive = FALSE,
              !.state.timeRemaining = IF Truthy(p.state.targetEndAt)
                                      THEN SecondsLeft(p.state.targetEndAt, t) ELSE @,
              !.state.targetEndAt = NULL,
              !.btn = [startBtn |-> FALSE, pauseBtn |-> TRUE],
              !.timerInterval = FALSE], t)

ResetTimer(p, t) ==
  LET p1 == PauseTimer(p, t)
  IN PomSaveState([p1 EXCEPT !.state.timeRemaining = GetDurationForSession(p1) * SecPerMin,
                             !.state.targetEndAt = NULL], t)

\* completeSession; the setTimeout of the auto-start keeps no handle, it is
\* recorded by the time it is due
PomCompleteSession(p, t) ==
  LET p1 == PauseTimer(p, t)
      p2 == IF p1.state.sessionType = "work"
            THEN [p1 EXCEPT
                    !.state.totalWorkSessions = @ + 1,
                    !.state.sessionType =
                       IF (p1.state.totalWorkSessions + 1) % 4 = 0
                       THEN "longBreak" ELSE "shortBreak",
                    !.state.pomodoroCount = (@ % GetTargetPomodoros(p1)) + 1]
            ELSE [p1 EXCEPT !.state.sessionType = "work"]
      p3 == PomSaveState([p2 EXCEPT !.state.timeRemaining = GetDurationForSession(p2) * SecPerMin], t)
  IN IF p3.settings.autoStartBreaks /\ p3.state.sessionType # "work"
     THEN [p3 EXCEPT !.autoStart = @ \cup {t + AutoStartDelayMs}]
     ELSE p3

TickTimer(p, t) ==
  IF ~p.state.isActive \/ ~Truthy(p.state.targetEndAt)
  THEN p
  ELSE
    LET p1 == PomSaveState(
                [p EXCEPT !.state.timeRemaining = SecondsLeft(p.state.targetEndAt, t)], t)
    IN IF p1.state.timeRemaining <= 0 THEN PomCompleteSession(p1, t) ELSE p1

\* maybeRequestNotificationPermission; a browser without Notification is one
\* whose permission is not 'default'
PomMaybeRequestNotificationPermission(p) ==
  IF p.permission # "default" \/ p.notificationPermissionRequested
  THEN p
  ELSE [p EXCEPT !.notificationPermissionRequested = TRUE,
                 !.permissionRequests = @ + 1]

StartTimer(p, t) ==
  LET p0 == PomMaybeRequestNotificationPermission(p)
      p1 == [p0 EXCEPT !.state.isActive = TRUE,
                      !.state.targetEndAt = IF ~Truthy(@)
                                            THEN t + p.state.timeRemaining * MsPerSec ELSE @,
                      !.btn = [startBtn |-> TRUE, pauseBtn |-> FALSE],
                      !.timerInterval = TRUE]
  IN PomSaveState(TickTimer(p1, t), t)

\* saveSettings with the form holding inp
SaveSettings(p, t, inp) ==
  LET p1 == [p EXCEPT !.settings =
                [targetPomodoros |-> Clamp(inp.targetPomodoros, 1, 30),
                 workDuration |-> Clamp(inp.workDuration, 1, 60),
                 shortBreakDuration |-> Clamp(inp.shortBreakDuration, 1, 30),
                 longBreakDuration |-> Clamp(inp.longBreakDuration, 1, 60),
                 autoStartBreaks |-> inp.autoStartBreaks]]
      p2 == PomSaveData(
              [p1 EXCEPT !.state.pomodoroCount =
                 ((Max(1, @) - 1) % GetTargetPomodoros(p1)) + 1])
  IN IF ~p2.state.isActive /\ p2.state.timeRemaining = GetDurationForSession(p2) * SecPerMin
     THEN ResetTimer(p2, t)
     ELSE p2

\* new PomodoroTimer() at time t over the stored item s, in a browser whose
\* Notification.permission is perm; crashed: the constructor threw before it
\* attached a listener
PomodoroConstructor(s, t, perm) ==
  LET p0 == [crashed |-> PomLoadThrows(s),
             permission |-> perm,
             notificationPermissionRequested |-> FALSE,
             permissionRequests |-> 0,
             settings |-> PomLoadSettings(s),
             state |-> PomLoadState(s, t),
             timerInterval |-> FALSE,
             autoStart |-> {},
             btn |-> [startBtn |-> FALSE, pauseBtn |-> TRUE],
             storage |-> s]
  IN IF ~p0.crashed /\ p0.state.isActive THEN StartTimer(p0, t) ELSE p0

\* ------------------------------------------------------------------------
\* State
\* ------------------------------------------------------------------------
VARIABLES
  now,                     \* Date.now()
  lastOp,                  \* history: the handler that ran last
  \* ---- Timer app
  docVisible,              \* document.visibilityState === 'visible'
  activeTab,               \* data.activeTab: the tab whose controls are on screen
  intervalSettings,        \* data.intervalSettings
  intervalState,
  countdownState,
  countdownDone,           \* countdownDisplay.classList.contains('done')
  lastCompletedCountdown,
  lastRuntimeSaveAt,
  intervalTimerInterval,   \* the 250 ms setInterval of tickInterval is scheduled
  countdownInterval,       \* the 250 ms setInterval of tickCountdown is scheduled
  btn,                     \* disabled flags of the buttons
  appVisible,
  storage,                 \* localStorage['marlapps-timer']
  wakeLock,                \* this.wakeLock !== null
  wlPending,               \* wake-lock requests the browser has not settled yet
  wlHeld,                  \* screen wake locks the page holds
  crossed,                 \* history: <<round, phase>> left by the last handler's tickInterval
  signals,                 \* history: cues (beep, notification) emitted by the last handler
  ivT0,                    \* history: time of the fresh startInterval of the running session,
                           \* NULL once it was paused or the settings changed
  ivRemAtPause,            \* history: phaseEndsAt - now when the interval timer was paused
  cdT0,                    \* history: time of the startCountdown of the running countdown,
  cdD,                     \*   and its timeRemaining then; NULL after add-time
  cdRemAtPause,            \* history: endAt - now when the countdown was paused
  cdSignals,               \* history: completion cues since the last startCountdown
  \* ---- Breathing app
  breathData,              \* this.data
  breathInputs,            \* values of the technique, cycles and duration form fields
  session,                 \* this.session
  breathTicker,            \* this.tickInterval !== null: the 100 ms ticker is scheduled
  breathBtn,               \* disabled flags of startBtn and pauseBtn
  breathStorage,           \* localStorage['marlapps-breathing']
  bT0,                     \* history: time of the startSession of the active session
                           \*   NULL once the session was paused
  bFirstTick,              \* history: no tick() has run since that startSession
  pomodoro,                \* Pomodoro app: settings, state, timerInterval (the 1 s
                           \*   setInterval is scheduled), autoStart (due times of the
                           \*   pending auto-start timeouts), btn, storage, crashed,
                           \*   permission (Notification.permission),
                           \*   notificationPermissionRequested, and the history
                           \*   permissionRequests (calls of requestPermission)
  pomStopped,              \* history: the user pressed pause or reset after the last
                           \*   press on start
  scope,                   \* what the behaviour follows: the page that is open, and
                           \*   the time the clock stops at
  bRemAtPause,             \* history: <<ms left in the phase, ms left in the session>>
                           \*   at the last pause of the paused or resumed session, and
                           \*   whether time passed during the pause
  alarmApp                 \* the alarms of the Timer app: data.alarms, lastAlarmCheckAt,
                           \*   alarmModal (the ringing dialog is open), the alarms in
                           \*   localStorage['marlapps-timer'], and the histories nextId
                           \*   (ids handed out), triggered (calls of triggerAlarm),
                           \*   clockSteps (steps of the clock) and reloads

timerVars ==
  <<docVisible, activeTab, intervalSettings, intervalState, countdownState, countdownDone,
    lastCompletedCountdown, lastRuntimeSaveAt, intervalTimerInterval, countdownInterval,
    btn, appVisible, storage, wakeLockApi, wakeLock, wlPending, wlHeld,
    crossed, signals, ivT0, ivRemAtPause, cdT0, cdD, cdRemAtPause, cdSignals>>

breathVars ==
  <<breathData, breathInputs, session, breathTicker, breathBtn, breathStorage,
    bT0, bFirstTick, bRemAtPause>>

\* the variables of the Breathing app a step of the clock leaves alone
breathVarsOfClockStep ==
  <<breathData, breathInputs, session, breathTicker, breathBtn, breathStorage,
    bT0, bFirstTick>>

pomVars == <<pomodoro, pomStopped>>

vars == <<now, lastOp, scope, timerVars, breathVars, pomVars, alarmApp>>

\* the memory of the Timer app as one record
Mem ==
  [intervalSettings |-> intervalSettings,
   intervalState |-> intervalState,
   countdownState |-> countdownState,
   countdownDone |-> countdownDone,
   lastCompletedCountdown |-> lastCompletedCountdown,
   lastRuntimeSaveAt |-> lastRuntimeSaveAt,
   intervalTimerInterval |-> intervalTimerInterval,
   countdownInterval |-> countdownInterval,
   btn |-> btn,
   appVisible |-> appVisible,
   storage |-> storage,
   thrown |-> FALSE,
   wakeLockApi |-> wakeLockApi,
   docVisible |-> docVisible,
   wakeLock |-> wakeLock,
   wlPending |-> wlPending,
   wlHeld |-> wlHeld,
   crossed |-> <<>>,
   signals |-> <<>>]

Commit(m) ==
  /\ intervalSettings' = m.intervalSettings
  /\ intervalState' = m.intervalState
  /\ countdownState' = m.countdownState
  /\ countdownDone' = m.countdownDone
  /\ lastCompletedCountdown' = m.lastCompletedCountdown
  /\ lastRuntimeSaveAt' = m.lastRuntimeSaveAt
  /\ intervalTimerInterval' = m.intervalTimerInterval
  /\ countdownInterval' = m.countdownInterval
  /\ btn' = m.btn
  /\ appVisible' = m.appVisible
  /\ storage' = m.storage
  /\ wakeLock' = m.wakeLock
  /\ wlPending' = m.wlPending
  /\ wlHeld' = m.wlHeld
  /\ crossed' = m.crossed
  /\ signals' = m.signals

CountOf(seq, x) == Cardinality({i \in 1..Len(seq) : seq[i] = x})

\* the handlers lastOp tells apart; every other step sets it to "other"
TimerOpsOfInterest ==
  {"startInterval", "resumeInterval", "pauseInterval", "tickInterval",
   "startCountdown", "resumeCountdown", "pauseCountdown", "tickCountdown",
   "resetInterval", "resetCountdown", "repeatLastCountdown", "load"}

\* a handler named op ran and left the memory m; the clock reads t afterwards
TimerStepAt(op, t, m) ==
  /\ scope.page = "timer"
  /\ Commit(m)
  /\ lastOp' = IF op \in TimerOpsOfInterest THEN op ELSE "other"
  /\ now' = t
  /\ UNCHANGED <<wakeLockApi, scope, breathVars, pomVars, alarmApp>>
  /\ ivT0' = IF ~m.intervalState.running THEN NULL
             ELSE IF op = "startInterval" THEN now
             ELSE IF op = "resumeInterval" \/ m.intervalSettings # intervalSettings THEN NULL
             ELSE ivT0
  /\ ivRemAtPause' = IF op = "pauseInterval"
                     THEN (IF Truthy(intervalState.phaseEndsAt)
                           THEN intervalState.phaseEndsAt - now ELSE NULL)
                     ELSE IF op = "resumeInterval" \/ (m.intervalState.paused /\ intervalState.paused)
                     THEN ivRemAtPause
                     ELSE NULL
  /\ cdT0' = IF ~m.countdownState.running THEN NULL
             ELSE IF op \in {"startCountdown", "resumeCountdown", "repeatLastCountdown"} THEN now
             ELSE IF op = "addCountdownTime" THEN NULL
             ELSE cdT0
  /\ cdD' = IF ~m.countdownState.running THEN NULL
            ELSE IF op \in {"startCountdown", "resumeCountdown"} THEN countdownState.timeRemaining
            ELSE IF op = "repeatLastCountdown" THEN lastCompletedCountdown
            ELSE IF op = "addCountdownTime" THEN NULL
            ELSE cdD
  /\ cdRemAtPause' = IF op = "pauseCountdown"
                     THEN (IF Truthy(countdownState.endAt)
                           THEN countdownState.endAt - now ELSE NULL)
                     ELSE IF op = "resumeCountdown" \/ (m.countdownState.paused /\ countdownState.paused)
                     THEN cdRemAtPause
                     ELSE NULL
  /\ cdSignals' = (IF op \in {"startCountdown", "resumeCountdown", "repeatLastCountdown"}
                   THEN 0 ELSE cdSignals)
                  + CountOf(m.signals, "countdown-complete")

\* a handler named op ran at time now and left the memory m
TimerStep(op, m) == TimerStepAt(op, now, m)

\* ------------------------------------------------------------------------
\* Inputs
\* ------------------------------------------------------------------------
ClockGaps == {StepMs, 6 * StepMs}
ReloadGaps == {0, 6 * StepMs}   \* time between closing and reopening the page
WorkInputs == {6}             \* typed into the work, rest and rounds fields
RestInputs == {5}
RoundsInputs == {1}
CustomSeconds == {0, 3}       \* typed into the custom countdown's seconds field
AddSeconds == {60, 300}       \* the +1:00 and +5:00 buttons

\* snapshots an earlier page load can have left behind: saved settings, no session
InitStorages ==
  {[NoStorage EXCEPT !.present = TRUE,
                     !.intervalSettings = [work |-> 5, rest |-> 5, rounds |-> 2]]}

\* the same with a countdown completed earlier, in a storage that is full
FullStorages ==
  {[s EXCEPT !.full = TRUE, !.runtime.lastCompletedCountdown = 3] : s \in InitStorages}

\* the tabs with a timer: 'timer' holds the countdown, 'intervals' the interval timer
TimerTabs == {"timer", "intervals"}

TimerHorizon ==
  StartClock + (IF wakeLockApi THEN MaxWakeLockSteps
                ELSE IF activeTab = "intervals" THEN MaxClockSteps
                ELSE MaxCountdownSteps) * StepMs

\* the page has room for one more wake-lock request
CanRequestWakeLock == wlPending + wlHeld < MaxWakeLocks

\* ------------------------------------------------------------------------
\* Timer app: actions
\* ------------------------------------------------------------------------
TimerInit(stores) ==
  /\ activeTab \in TimerTabs
  /\ docVisible = TRUE
  /\ \E s \in stores :
       \E m \in {Constructor(s, StartClock)} :
          /\ intervalSettings = m.intervalSettings
          /\ intervalState = m.intervalState
          /\ countdownState = m.countdownState
          /\ countdownDone = m.countdownDone
          /\ lastCompletedCountdown = m.lastCompletedCountdown
          /\ lastRuntimeSaveAt = m.lastRuntimeSaveAt
          /\ intervalTimerInterval = m.intervalTimerInterval
          /\ countdownInterval = m.countdownInterval
          /\ btn = m.btn
          /\ appVisible = m.appVisible
          /\ storage = m.storage
          /\ wakeLock = m.wakeLock
          /\ wlPending = m.wlPending
          /\ wlHeld = m.wlHeld
          /\ crossed = m.crossed
          /\ signals = m.signals
  /\ ivT0 = NULL
  /\ ivRemAtPause = NULL
  /\ cdT0 = NULL
  /\ cdD = NULL
  /\ cdRemAtPause = NULL
  /\ cdSignals = 0

\* what a clock step leaves alone
timerVarsOfClockStep ==
  <<docVisible, activeTab, intervalSettings, intervalState, countdownState, countdownDone,
    lastCompletedCountdown, intervalTimerInterval, countdownInterval,
    btn, appVisible, storage, wakeLockApi, wakeLock, wlPending, wlHeld,
    ivT0, ivRemAtPause, cdT0, cdD, cdRemAtPause, cdSignals>>

\* lastRuntimeSaveAt is only ever read as now - lastRuntimeSaveAt < SaveThrottleMs,
\* so a save older than the throttle window is kept as exactly that old
AgeSaveAt(saveAt, t) == Max(saveAt, t - SaveThrottleMs)

\* the wall clock advances; no handler runs
TimerAdvance ==
  /\ scope.page = "timer"
  /\ \E d \in ClockGaps :
       /\ now + d <= scope.horizon
       /\ now' = now + d
       /\ lastRuntimeSaveAt' = AgeSaveAt(lastRuntimeSaveAt, now + d)
  /\ lastOp' = "other"
  /\ crossed' = <<>>
  /\ signals' = <<>>
  /\ UNCHANGED <<scope, timerVarsOfClockStep, breathVars, pomVars, alarmApp>>

StartIntervalClick ==
  /\ activeTab = "intervals"
  /\ UNCHANGED <<docVisible, activeTab>>
  /\ ~btn.intervalStartBtn
  /\ TimerStep(IF intervalState.paused THEN "resumeInterval" ELSE "startInterval",
               StartInterval(Mem, now))

PauseIntervalClick ==
  /\ activeTab = "intervals"
  /\ UNCHANGED <<docVisible, activeTab>>
  /\ ~btn.intervalPauseBtn
  /\ TimerStep("pauseInterval", PauseInterval(Mem, now))

ResetIntervalClick ==
  /\ activeTab = "intervals"
  /\ UNCHANGED <<docVisible, activeTab>>
  /\ TimerStep("resetInterval", ResetInterval(Mem, now, TRUE))

IntervalSettingsChange ==
  /\ activeTab = "intervals"
  /\ UNCHANGED <<docVisible, activeTab>>
  /\ \E w \in WorkInputs, r \in RestInputs, n \in RoundsInputs :
       TimerStep("saveIntervalSettings",
                 SaveIntervalSettings(Mem, now, [work |-> w, rest |-> r, rounds |-> n]))

\* the setInterval callback of the interval timer
IntervalTimerFires ==
  /\ UNCHANGED <<docVisible, activeTab>>
  /\ intervalTimerInterval
  /\ TimerStep("tickInterval", TickInterval(Mem, now, FALSE, TRUE))

SetCustomCountdown ==
  /\ activeTab = "timer"
  /\ UNCHANGED <<docVisible, activeTab>>
  /\ \E secs \in CustomSeconds :
       TimerStep("setCustomCountdown",
                 IF secs <= 0 THEN Mem ELSE SetCountdownDuration(Mem, now, secs))

AddCountdownTimeClick ==
  /\ activeTab = "timer"
  /\ UNCHANGED <<docVisible, activeTab>>
  /\ \E s \in AddSeconds :
       /\ countdownState.totalTime + s <= MaxCountdownTotal
       /\ TimerStep("addCountdownTime", AddCountdownTime(Mem, now, s))

RepeatCountdownClick ==
  /\ activeTab = "timer"
  /\ UNCHANGED <<docVisible, activeTab>>
  /\ ~btn.countdownRepeatBtn
  /\ CanRequestWakeLock
  /\ TimerStep("repeatLastCountdown", RepeatLastCountdown(Mem, now))

StartCountdownClick ==
  /\ activeTab = "timer"
  /\ UNCHANGED <<docVisible, activeTab>>
  /\ ~btn.countdownStartBtn
  /\ CanRequestWakeLock
  /\ TimerStep(IF countdownState.paused THEN "resumeCountdown" ELSE "startCountdown",
               StartCountdown(Mem, now))

\* the setInterval callback of the countdown
CountdownTimerFires ==
  /\ UNCHANGED <<docVisible, activeTab>>
  /\ countdownInterval
  /\ TimerStep("tickCountdown", TickCountdown(Mem, now, FALSE, TRUE))

PauseCountdownClick ==
  /\ activeTab = "timer"
  /\ UNCHANGED <<docVisible, activeTab>>
  /\ ~btn.countdownPauseBtn
  /\ TimerStep("pauseCountdown", PauseCountdown(Mem, now))

ResetCountdownClick ==
  /\ activeTab = "timer"
  /\ UNCHANGED <<docVisible, activeTab>>
  /\ TimerStep("resetCountdown", ResetCountdown(Mem, now))

\* the document's visibility flips and the visibilitychange listener runs
VisibilityChange ==
  /\ CanRequestWakeLock
  /\ docVisible' = ~docVisible
  /\ UNCHANGED activeTab
  /\ TimerStep("visibilitychange",
               HandleVisibilityChange(DocumentVisibility(Mem, ~docVisible), now, ~docVisible))

\* the launcher posts { type: 'app-visibility', visible }
AppVisibilityMessage ==
  \E visible \in BOOLEAN :
    /\ CanRequestWakeLock
    /\ UNCHANGED <<docVisible, activeTab>>
    /\ TimerStep("appVisibility", HandleAppVisibility(Mem, now, visible, docVisible))

\* the browser grants an outstanding wake-lock request; it grants none to a
\* hidden document
WakeLockGranted ==
  /\ wlPending > 0
  /\ docVisible
  /\ UNCHANGED <<docVisible, activeTab>>
  /\ TimerStep("wakeLockGranted", WakeLockResolved(Mem))

\* the browser rejects an outstanding wake-lock request
WakeLockRejected ==
  /\ wlPending > 0
  /\ UNCHANGED <<docVisible, activeTab>>
  /\ TimerStep("wakeLockRejected", WakeLockFailed(Mem))

\* the page is closed and opened again gap ms later: pagehide / beforeunload
\* force a save, every timer of the page dies, and new TimerApp() runs over
\* what localStorage holds
Reload ==
  \E gap \in ReloadGaps :
    /\ now + gap <= scope.horizon
    /\ docVisible' = TRUE
    /\ UNCHANGED activeTab
    /\ TimerStepAt("load", now + gap,
                   Constructor(PersistRuntimeData(Mem, now, TRUE).storage, now + gap))

TimerNext ==
  \/ TimerAdvance
  \/ StartIntervalClick
  \/ PauseIntervalClick
  \/ ResetIntervalClick
  \/ IntervalSettingsChange
  \/ IntervalTimerFires
  \/ SetCustomCountdown
  \/ AddCountdownTimeClick
  \/ RepeatCountdownClick
  \/ StartCountdownClick
  \/ CountdownTimerFires
  \/ PauseCountdownClick
  \/ ResetCountdownClick
  \/ VisibilityChange
  \/ Reload

\* ------------------------------------------------------------------------
\* Breathing app: actions
\* ------------------------------------------------------------------------
BreathMem ==
  [data |-> breathData, inputs |-> breathInputs, session |-> session,
   ticker |-> breathTicker, btn |-> breathBtn, storage |-> breathStorage]

BreathGaps == {4 * StepMs, 16 * StepMs}
BreathCyclesInputs == {2}
BreathDurationInputs ==
  {[inhale |-> 4, holdIn |-> 4, exhale |-> 4, holdOut |-> 4],
   [inhale |-> 4, holdIn |-> 0, exhale |-> 4, holdOut |-> 0]}
BreathTechniqueInputs == {"box"}

\* settings an earlier page load can have left behind
InitBreathStorages ==
  {[NoBreathStorage EXCEPT !.present = TRUE, !.cycles = 2]}

BreathHorizon == StartClock + MaxBreathSteps * StepMs

\* the handlers lastOp tells apart; every other step sets it to "other"
BreathOpsOfInterest ==
  {"startSession", "pauseSession", "resumeSession", "resetSession", "tick", "load"}

\* a handler named op ran at time now and left the memory b
BreathStep(op, b) ==
  /\ scope.page = "breathing"
  /\ breathData' = b.data
  /\ breathInputs' = b.inputs
  /\ session' = b.session
  /\ breathTicker' = b.ticker
  /\ breathBtn' = b.btn
  /\ breathStorage' = b.storage
  /\ lastOp' = IF op \in BreathOpsOfInterest THEN op ELSE "other"
  /\ now' = now
  /\ UNCHANGED <<scope, timerVars, pomVars, alarmApp>>
  /\ bT0' = IF ~b.session.active \/ b.session.paused THEN NULL
            ELSE IF op = "startSession" THEN now ELSE bT0
  /\ bFirstTick' = IF ~b.session.active THEN FALSE
                   ELSE IF op = "startSession" THEN TRUE
                   ELSE IF op = "tick" THEN FALSE
                   ELSE bFirstTick
  /\ bRemAtPause' = IF ~b.session.active THEN <<0, 0, FALSE>>
                    ELSE IF op = "pauseSession"
                    THEN <<Max(0, session.phaseEndsAt - now),
                           Max(0, session.sessionEndsAt - now), FALSE>>
                    ELSE IF op = "resumeSession" \/ b.session.paused THEN bRemAtPause
                    ELSE <<0, 0, FALSE>>

BreathInit(stores) ==
  /\ \E s \in stores :
       \E b \in {BreathConstructor(s)} :
          /\ breathData = b.data
          /\ breathInputs = b.inputs
          /\ session = b.session
          /\ breathTicker = b.ticker
          /\ breathBtn = b.btn
          /\ breathStorage = b.storage
  /\ bT0 = NULL
  /\ bFirstTick = FALSE
  /\ bRemAtPause = <<0, 0, FALSE>>

BreathAdvance ==
  /\ scope.page = "breathing"
  /\ \E d \in BreathGaps :
       /\ now + d <= scope.horizon
       /\ now' = now + d
  /\ lastOp' = "other"
  /\ bRemAtPause' = IF session.paused THEN [bRemAtPause EXCEPT ![3] = TRUE] ELSE bRemAtPause
  /\ UNCHANGED <<scope, timerVars, breathVarsOfClockStep, pomVars, alarmApp>>

\* click on startBtn: resume a paused session, else start one
StartBtnClick ==
  /\ ~breathBtn.startBtn
  /\ IF session.paused
     THEN BreathStep("resumeSession", ResumeSession(BreathMem, now))
     ELSE BreathStep("startSession", StartSession(BreathMem, now))

\* click on pauseBtn
PauseBtnClick ==
  /\ ~breathBtn.pauseBtn
  /\ IF ~session.active
     THEN BreathStep("pauseClickIdle", BreathMem)
     ELSE IF session.paused
     THEN BreathStep("resumeSession", ResumeSession(BreathMem, now))
     ELSE BreathStep("pauseSession", PauseSession(BreathMem, now))

ResetBtnClick ==
  /\ BreathStep("resetSession", ResetSession(BreathMem))

TechniqueSelectChange ==
  /\ \E k \in BreathTechniqueInputs :
       BreathStep("techniqueChange", TechniqueChange(BreathMem, k))

DurationInputChange ==
  /\ \E c \in BreathCyclesInputs, d \in BreathDurationInputs :
       BreathStep("durationChange", DurationChange(BreathMem, c, d))

\* the 100 ms setInterval callback
BreathTickerFires ==
  /\ breathTicker
  /\ BreathStep("tick", Tick(BreathMem, now))

\* the page is reloaded: beforeunload / pagehide clear the ticker, the page
\* goes away and new BreathingApp() runs over what localStorage holds
BreathReload ==
  BreathStep("load", BreathConstructor(breathStorage))

\* beforeunload or pagehide on a page that stays alive: the unload is
\* cancelled, or the page goes into the back-forward cache and comes back
BreathPageHide ==
  /\ BreathStep("pagehide", ClearTicker(BreathMem))

BreathNext ==
  \/ BreathAdvance
  \/ StartBtnClick
  \/ PauseBtnClick
  \/ ResetBtnClick
  \/ TechniqueSelectChange
  \/ DurationInputChange
  \/ BreathTickerFires
  \/ BreathReload

\* ------------------------------------------------------------------------
\* Pomodoro app: actions
\* ------------------------------------------------------------------------
PomodoroGaps == {MsPerSec, 2 * MsPerSec}
PomSettingsInputs ==
  {[targetPomodoros |-> 2, workDuration |-> 1, shortBreakDuration |-> 1,
    longBreakDuration |-> 1, autoStartBreaks |-> TRUE]}

\* items an earlier page load, another program or a user can have left behind;
\* the object is a work session paused with 2 s left
PomPausedStorage ==
  [kind |-> "object",
   settings |-> [PomDefaultSettings EXCEPT !.workDuration = 1],
   state |-> [PomDefaultState(0) EXCEPT !.timeRemaining = 2]]

\* the same after migrateStorage merged the keys of an earlier version: a state
\* that counted its fifth pomodoro, and settings that name the target 4
PomMigratedStorage ==
  [PomPausedStorage EXCEPT !.state.pomodoroCount = 5, !.state.totalWorkSessions = 4]

\* a fresh work session of one minute, with breaks of one minute and the target 4
PomCycleStorage ==
  [kind |-> "object",
   settings |-> [PomDefaultSettings EXCEPT !.workDuration = 1, !.shortBreakDuration = 1,
                                           !.longBreakDuration = 1],
   state |-> [PomDefaultState(0) EXCEPT !.timeRemaining = SecPerMin]]

PomInitStorages ==
  {[PomNoStorage EXCEPT !.kind = k] : k \in {"missing", "invalid", "null", "array", "scalar"}}
  \cup {PomPausedStorage, PomMigratedStorage}

PomodoroInit(stores) ==
  /\ \E s \in stores : pomodoro = PomodoroConstructor(s, StartClock, "default")
  /\ pomStopped = FALSE

\* a handler named op ran at time now and left the Pomodoro app as p
PomStep(op, p) ==
  /\ pomodoro' = p
  /\ pomStopped' = IF op \in {"pauseTimer", "resetTimer"} THEN TRUE
                   ELSE IF op = "startTimer" THEN FALSE
                   ELSE pomStopped
  /\ lastOp' = IF op \in {"startTimer", "pauseTimer", "resetTimer", "tickTimer",
                            "autoStart", "load"}
               THEN op ELSE "other"
  /\ UNCHANGED <<now, scope, timerVars, breathVars, alarmApp>>

PomAdvance ==
  /\ \E d \in scope.gaps :
       /\ now + d <= scope.horizon
       /\ now' = now + d
  /\ lastOp' = "other"
  /\ UNCHANGED <<scope, timerVars, breathVars, pomVars, alarmApp>>

PomStartClick ==
  /\ ~pomodoro.crashed
  /\ ~pomodoro.btn.startBtn
  /\ PomStep("startTimer", StartTimer(pomodoro, now))

PomPauseClick ==
  /\ ~pomodoro.crashed
  /\ ~pomodoro.btn.pauseBtn
  /\ PomStep("pauseTimer", PauseTimer(pomodoro, now))

PomResetClick ==
  /\ ~pomodoro.crashed
  /\ PomStep("resetTimer", ResetTimer(pomodoro, now))

PomSaveSettingsClick ==
  /\ ~pomodoro.crashed
  /\ \E inp \in PomSettingsInputs :
       PomStep("saveSettings", SaveSettings(pomodoro, now, inp))

\* the setInterval callback
PomTimerFires ==
  /\ pomodoro.timerInterval
  /\ PomStep("tickTimer", TickTimer(pomodoro, now))

\* the setTimeout callback of completeSession
PomAutoStartFires ==
  \E due \in pomodoro.autoStart :
    /\ now >= due
    /\ PomStep("autoStart", StartTimer([pomodoro EXCEPT !.autoStart = @ \ {due}], now))

\* the page is opened again: new PomodoroTimer() over what localStorage holds
PomReload ==
  PomStep("load", PomodoroConstructor(pomodoro.storage, now, pomodoro.permission))

\* the user answers the permission prompt of the browser
PomPermissionAnswered ==
  /\ pomodoro.permissionRequests > 0
  /\ pomodoro.permission = "default"
  /\ \E answer \in {"granted", "denied"} :
       PomStep("permission", [pomodoro EXCEPT !.permission = answer])

PomodoroNext ==
  \/ PomAdvance
  \/ PomStartClick
  \/ PomPauseClick
  \/ PomResetClick
  \/ PomSaveSettingsClick
  \/ PomTimerFires
  \/ PomAutoStartFires
  \/ PomReload
  \/ PomPermissionAnswered

\* ------------------------------------------------------------------------
\* Timer app: alarms
\* ------------------------------------------------------------------------
MinutesPerHour == 60
MinutesPerDay == 24 * MinutesPerHour
MsPerMinute == SecPerMin * MsPerSec
MsPerDay == MinutesPerDay * MsPerMinute
\* new Date(0).getDay(): 1 January 1970 was a Thursday (local time taken as UTC)
EpochWeekday == 4

\* JavaScript values of alarm.lastTriggered: null, a string (of toDateString) or a number
JsNull == [type |-> "null", value |-> 0]
JsString(v) == [type |-> "string", value |-> v]

\* a Date on a minute boundary is the number of minutes since the epoch
GetHours(c) == (c % MinutesPerDay) \div MinutesPerHour
GetMinutes(c) == c % MinutesPerHour
GetDay(c) == (EpochWeekday + c \div MinutesPerDay) % 7
\* candidate.toDateString(): a string that names the calendar day
ToDateString(c) == JsString(c \div MinutesPerDay)

\* an alarm.time 'HH:MM' is <<hours, minutes>>; the two-digit padding of both sides
\* makes the strings equal exactly when hours and minutes are
ValidAlarmTime(time) == time[1] \in 0..23 /\ time[2] \in 0..59

\* candidateTimes of checkAlarms: every minute from the one of fromMs up to nowMs
CandidateTimes(fromMs, nowMs) ==
  LET first == fromMs \div MsPerMinute
      last == nowMs \div MsPerMinute
  IN [i \in 1..(last - first + 1) |-> first + i - 1]

\* the tests of the loop body of checkAlarms that let a candidate trigger the alarm
AlarmMatches(alarm, candidate) ==
  /\ alarm.time = <<GetHours(candidate), GetMinutes(candidate)>>
  /\ alarm.lastTriggered # ToDateString(candidate)
  /\ alarm.days # {} => GetDay(candidate) \in alarm.days

\* the candidates that trigger the alarm in one call of checkAlarms: the first
\* match, after which the loop breaks
AlarmHits(alarm, candidates) ==
  LET hits == {i \in DOMAIN candidates : AlarmMatches(alarm, candidates[i])}
  IN IF ~alarm.enabled \/ hits = {} THEN <<>>
     ELSE <<candidates[CHOOSE i \in hits : \A j \in hits : i <= j]>>

\* the forEach body of checkAlarms for one alarm
CheckAlarm(alarm, candidates) ==
  LET hit == AlarmHits(alarm, candidates)
  IN IF hit = <<>> THEN alarm
     ELSE [alarm EXCEPT !.lastTriggered = ToDateString(hit[1]),
                        !.enabled = IF alarm.days = {} THEN FALSE ELSE @]

RECURSIVE TriggersOf(_, _)
\* history: the calls of triggerAlarm one call of checkAlarms makes
TriggersOf(alarms, candidates) ==
  IF alarms = <<>> THEN <<>>
  ELSE LET hit == AlarmHits(Head(alarms), candidates)
       IN (IF hit = <<>> THEN <<>>
           ELSE <<[id |-> Head(alarms).id, date |-> ToDateString(hit[1]).value,
                   once |-> Head(alarms).days = {}]>>)
          \o TriggersOf(Tail(alarms), candidates)

\* saveData: JSON.stringify keeps the strings, null, booleans and arrays of the alarms
SaveAlarms(a) == [a EXCEPT !.storage = a.alarms]

\* loadData: the alarm list of the stored data
LoadAlarms(stored) ==
  LET valid == SelectSeq(stored, LAMBDA alarm : ValidAlarmTime(alarm.time))
  IN [i \in DOMAIN valid |->
       [id |-> valid[i].id,
        time |-> valid[i].time,
        days |-> valid[i].days \cap 0..6,
        enabled |-> valid[i].enabled # FALSE,
        lastTriggered |-> IF valid[i].lastTriggered.type = "number"
                          THEN valid[i].lastTriggered ELSE JsNull]]

\* the constructor: loadData, then startAlarmChecker
AlarmConstructor(a, t) ==
  [a EXCEPT !.alarms = LoadAlarms(a.storage), !.lastAlarmCheckAt = t, !.alarmModal = FALSE]

AddAlarm(a, time, days) ==
  SaveAlarms([a EXCEPT !.alarms = Append(@, [id |-> a.nextId, time |-> time, days |-> days,
                                             enabled |-> TRUE, lastTriggered |-> JsNull]),
                       !.nextId = @ + 1])

ToggleAlarm(a, id, enabled) ==
  SaveAlarms([a EXCEPT
    !.alarms = [i \in DOMAIN a.alarms |->
                 IF a.alarms[i].id # id THEN a.alarms[i]
                 ELSE [a.alarms[i] EXCEPT !.enabled = enabled,
                                          !.lastTriggered = IF enabled THEN JsNull ELSE @]],
    \* history: the user enabled the alarm again, its earlier triggers are forgotten
    !.triggered = IF enabled THEN SelectSeq(@, LAMBDA tr : tr.id # id) ELSE @])

DeleteAlarm(a, id) ==
  SaveAlarms([a EXCEPT !.alarms = SelectSeq(@, LAMBDA alarm : alarm.id # id)])

CheckAlarms(a, t) ==
  LET candidates == CandidateTimes(a.lastAlarmCheckAt, t)
      checked == [i \in DOMAIN a.alarms |-> CheckAlarm(a.alarms[i], candidates)]
      calls == TriggersOf(a.alarms, candidates)
      a1 == [a EXCEPT !.lastAlarmCheckAt = t, !.alarms = checked,
                      !.alarmModal = @ \/ calls # <<>>,
                      !.triggered = @ \o calls]
  IN IF calls # <<>> THEN SaveAlarms(a1) ELSE a1

DismissAlarm(a) == [a EXCEPT !.alarmModal = FALSE]

NoAlarms ==
  [alarms |-> <<>>, lastAlarmCheckAt |-> StartClock, alarmModal |-> FALSE,
   storage |-> <<>>, nextId |-> 1, triggered |-> <<>>, clockSteps |-> 0,
   reloads |-> 0]

AlarmInit(stores) == alarmApp \in stores

\* a handler named op ran at time now and left the alarms as a
AlarmStep(op, a) ==
  /\ scope.page = "alarms"
  /\ alarmApp' = a
  /\ lastOp' = IF op \in {"checkAlarms", "load"} THEN op ELSE "other"
  /\ UNCHANGED <<now, scope, timerVars, breathVars, pomVars>>

\* time passes; the 1 s interval of checkAlarms may be late by any of it
AlarmAdvance ==
  /\ scope.page = "alarms"
  /\ alarmApp.clockSteps < MaxAlarmSteps
  /\ \E d \in scope.gaps : now' = now + d
  /\ alarmApp' = [alarmApp EXCEPT !.clockSteps = @ + 1]
  /\ lastOp' = "other"
  /\ UNCHANGED <<scope, timerVars, breathVars, pomVars>>

AlarmTimes == {<<0, 1>>}
AlarmDaySets == {{}, 0..6, {GetDay(MinutesPerDay)}}

AddAlarmClick ==
  /\ alarmApp.nextId <= MaxAlarms
  /\ \E time \in AlarmTimes, days \in AlarmDaySets :
       AlarmStep("addAlarm", AddAlarm(alarmApp, time, days))

ToggleAlarmChange ==
  \E i \in DOMAIN alarmApp.alarms :
    AlarmStep("toggleAlarm",
              ToggleAlarm(alarmApp, alarmApp.alarms[i].id, ~alarmApp.alarms[i].enabled))

DeleteAlarmClick ==
  \E i \in DOMAIN alarmApp.alarms :
    AlarmStep("deleteAlarm", DeleteAlarm(alarmApp, alarmApp.alarms[i].id))

DismissAlarmClick ==
  /\ alarmApp.alarmModal
  /\ AlarmStep("dismissAlarm", DismissAlarm(alarmApp))

AlarmCheckerFires ==
  /\ AlarmStep("checkAlarms", CheckAlarms(alarmApp, now))

AlarmReload ==
  /\ alarmApp.reloads < MaxAlarmReloads
  /\ AlarmStep("load", [AlarmConstructor(alarmApp, now) EXCEPT !.reloads = @ + 1])

AlarmNext ==
  \/ AlarmAdvance
  \/ AddAlarmClick
  \/ ToggleAlarmChange
  \/ DeleteAlarmClick
  \/ DismissAlarmClick
  \/ AlarmCheckerFires
  \/ AlarmReload

\* ------------------------------------------------------------------------
\* Specifications
\* ------------------------------------------------------------------------
ClockInit ==
  /\ now = StartClock
  /\ lastOp = "init"

\* the Timer app alone (Breathing and Pomodoro pages that are never touched)
TimerOnlyInit ==
  /\ ClockInit
  /\ wakeLockApi = FALSE
  /\ TimerInit(InitStorages)
  /\ BreathInit({NoBreathStorage})
  /\ PomodoroInit({PomNoStorage})
  /\ AlarmInit({NoAlarms})
  /\ scope = [page |-> "timer", horizon |-> TimerHorizon]

SpecTimer == TimerOnlyInit /\ [][TimerNext]_vars

\* the Breathing app alone
BreathOnlyInit ==
  /\ ClockInit
  /\ wakeLockApi = FALSE
  /\ TimerInit({NoStorage})
  /\ activeTab = "timer"
  /\ BreathInit(InitBreathStorages)
  /\ PomodoroInit({PomNoStorage})
  /\ AlarmInit({NoAlarms})
  /\ scope = [page |-> "breathing", horizon |-> BreathHorizon]

SpecBreathing == BreathOnlyInit /\ [][BreathNext]_vars

\* the Timer app over a localStorage whose every write throws: the snapshot an
\* earlier page load left behind stays what it is
QuotaInit ==
  /\ ClockInit
  /\ wakeLockApi = FALSE
  /\ TimerInit(FullStorages)
  /\ BreathInit({NoBreathStorage})
  /\ PomodoroInit({PomNoStorage})
  /\ AlarmInit({NoAlarms})
  /\ scope = [page |-> "timer", horizon |-> TimerHorizon]

SpecQuota == QuotaInit /\ [][TimerNext]_vars

\* the countdown of the Timer app in a browser with the Screen Wake Lock API
WakeLockNext ==
  \/ TimerAdvance
  \/ SetCustomCountdown
  \/ AddCountdownTimeClick
  \/ RepeatCountdownClick
  \/ StartCountdownClick
  \/ CountdownTimerFires
  \/ PauseCountdownClick
  \/ ResetCountdownClick
  \/ VisibilityChange
  \/ AppVisibilityMessage
  \/ WakeLockGranted
  \/ WakeLockRejected
  \/ Reload

WakeLockInit ==
  /\ ClockInit
  /\ wakeLockApi = TRUE
  /\ TimerInit(InitStorages)
  /\ activeTab = "timer"
  /\ BreathInit({NoBreathStorage})
  /\ PomodoroInit({PomNoStorage})
  /\ AlarmInit({NoAlarms})
  /\ scope = [page |-> "timer", horizon |-> TimerHorizon]

SpecWakeLock == WakeLockInit /\ [][WakeLockNext]_vars

\* the Pomodoro app alone
PomodoroOnlyInit ==
  /\ ClockInit
  /\ wakeLockApi = FALSE
  /\ TimerInit({NoStorage})
  /\ activeTab = "timer"
  /\ BreathInit({NoBreathStorage})
  /\ PomodoroInit(PomInitStorages)
  /\ AlarmInit({NoAlarms})
  /\ scope = [page |-> "pomodoro", gaps |-> PomodoroGaps,
              horizon |-> StartClock + MaxPomodoroSeconds * MsPerSec]

SpecPomodoro == PomodoroOnlyInit /\ [][PomodoroNext]_vars

\* the alarms of the Timer app: the clock moves by half a minute or by a day
AlarmGaps == {MsPerMinute \div 2, MsPerDay}

AlarmOnlyInit ==
  /\ ClockInit
  /\ wakeLockApi = FALSE
  /\ TimerInit({NoStorage})
  /\ activeTab = "timer"
  /\ BreathInit({NoBreathStorage})
  /\ PomodoroInit({PomNoStorage})
  /\ AlarmInit({NoAlarms})
  /\ scope = [page |-> "alarms", gaps |-> AlarmGaps]

SpecAlarms == AlarmOnlyInit /\ [][AlarmNext]_vars

\* the Pomodoro app over whole sessions: the clock moves a minute at a time
PomodoroCycleInit ==
  /\ ClockInit
  /\ wakeLockApi = FALSE
  /\ TimerInit({NoStorage})
  /\ activeTab = "timer"
  /\ BreathInit({NoBreathStorage})
  /\ PomodoroInit({PomCycleStorage})
  /\ AlarmInit({NoAlarms})
  /\ scope = [page |-> "pomodoro", gaps |-> {SecPerMin * MsPerSec},
              horizon |-> StartClock + MaxPomodoroMinutes * SecPerMin * MsPerSec]

SpecPomodoroCycle == PomodoroCycleInit /\ [][PomodoroNext]_vars

\* one of the Timer and Breathing pages, over a short time
AppsNext ==
  \/ TimerNext
  \/ BreathNext

AppsInit ==
  /\ ClockInit
  /\ wakeLockApi = FALSE
  /\ \E page \in {"timer", "breathing"} :
       /\ scope = [page |-> page, horizon |-> StartClock + MaxAppsSteps * StepMs]
       /\ TimerInit(IF page = "timer" THEN InitStorages ELSE {NoStorage})
       /\ page = "breathing" => activeTab = "timer"
       /\ BreathInit(IF page = "timer" THEN {NoBreathStorage} ELSE InitBreathStorages)
  /\ PomodoroInit({PomNoStorage})
  /\ AlarmInit({NoAlarms})

SpecApps == AppsInit /\ [][AppsNext]_vars

\* sessions that nobody pauses or resets, with a clock that keeps advancing
\* and setInterval callbacks that keep firing
LiveStorages ==
  {[NoStorage EXCEPT !.present = TRUE,
                     !.intervalSettings = [work |-> 1, rest |-> 1, rounds |-> 2]]}

LiveBreathStorages ==
  {[NoBreathStorage EXCEPT !.present = TRUE, !.cycles = 1,
                           !.durations = [inhale |-> 2, holdIn |-> 0,
                                          exhale |-> 2, holdOut |-> 0]]}

LiveInit ==
  /\ ClockInit
  /\ wakeLockApi = FALSE
  /\ \E page \in {"timer", "breathing"} :
       /\ scope = [page |-> page, horizon |-> StartClock + MaxLiveSteps * StepMs]
       /\ TimerInit(IF page = "timer" THEN LiveStorages ELSE {NoStorage})
       /\ page = "breathing" => activeTab = "timer"
       /\ BreathInit(IF page = "timer" THEN {NoBreathStorage} ELSE LiveBreathStorages)
  /\ PomodoroInit({PomNoStorage})
  /\ AlarmInit({NoAlarms})

LiveNext ==
  \/ TimerAdvance
  \/ StartIntervalClick
  \/ IntervalTimerFires
  \/ SetCustomCountdown
  \/ StartCountdownClick
  \/ CountdownTimerFires
  \/ BreathAdvance
  \/ StartBtnClick
  \/ BreathTickerFires

SpecLive ==
  /\ LiveInit
  /\ [][LiveNext]_vars
  /\ WF_vars(TimerAdvance)
  /\ WF_vars(IntervalTimerFires)
  /\ WF_vars(CountdownTimerFires)
  /\ WF_vars(BreathAdvance)
  /\ WF_vars(BreathTickerFires)

\* snapshots that no page load of this program wrote: a running countdown and
\* a running interval timer whose deadline is the finite number 0, with the
\* paused flag set as well in the first
ZeroDeadlineStorages ==
  {[s EXCEPT !.runtime.countdown =
       [some |-> TRUE, done |-> FALSE, running |-> TRUE, paused |-> TRUE,
        timeRemaining |-> 3, totalTime |-> 3, endAt |-> 0]] : s \in InitStorages}
  \cup
  {[s EXCEPT !.runtime.interval =
       [some |-> TRUE, running |-> TRUE, paused |-> FALSE, currentRound |-> 1,
        phase |-> "work", timeRemaining |-> 5, phaseEndsAt |-> 0]] : s \in InitStorages}

\* the Timer app opened over such a snapshot
TimerAnyStorageInit ==
  /\ ClockInit
  /\ wakeLockApi = FALSE
  /\ TimerInit(ZeroDeadlineStorages)
  /\ BreathInit({NoBreathStorage})
  /\ PomodoroInit({PomNoStorage})
  /\ AlarmInit({NoAlarms})
  /\ scope = [page |-> "timer", horizon |-> StartClock + MaxLiveSteps * StepMs]

SpecTimerAnyStorage == TimerAnyStorageInit /\ [][TimerNext]_vars

\* the Breathing app on a page that can be hidden without being destroyed
BreathUnloadInit ==
  /\ ClockInit
  /\ wakeLockApi = FALSE
  /\ scope = [page |-> "breathing", horizon |-> StartClock + MaxLiveSteps * StepMs]
  /\ TimerInit({NoStorage})
  /\ activeTab = "timer"
  /\ BreathInit(LiveBreathStorages)
  /\ PomodoroInit({PomNoStorage})
  /\ AlarmInit({NoAlarms})

BreathUnloadNext ==
  \/ BreathAdvance
  \/ StartBtnClick
  \/ PauseBtnClick
  \/ ResetBtnClick
  \/ BreathTickerFires
  \/ BreathPageHide
  \/ BreathReload

SpecBreathUnload == BreathUnloadInit /\ [][BreathUnloadNext]_vars

\* ------------------------------------------------------------------------
\* Properties
\* ------------------------------------------------------------------------

\* what a session of the Timer app shows: status, round, phase, remaining
\* seconds, and the deadline of a timer that is running
View(m) ==
  [iRunning |-> m.intervalState.running,
   iPaused |-> m.intervalState.paused,
   currentRound |-> m.intervalState.currentRound,
   phase |-> m.intervalState.phase,
   iRemaining |-> m.intervalState.timeRemaining,
   phaseEndsAt |-> IF m.intervalState.running THEN m.intervalState.phaseEndsAt ELSE NULL,
   cRunning |-> m.countdownState.running,
   cPaused |-> m.countdownState.paused,
   cDone |-> m.countdownDone,
   cRemaining |-> m.countdownState.timeRemaining,
   endAt |-> IF m.countdownState.running THEN m.countdownState.endAt ELSE NULL]

\* the phase after <<round, phase>> in session order
NextInSession(p) == IF p[2] = "work" THEN <<p[1], "rest">> ELSE <<p[1] + 1, "work">>

\* C1: one periodic tickInterval call leaves the phases whose deadlines have
\* passed one after the other in session order, starting with the current
\* one and skipping none; it does not lower currentRound; and when it returns
\* the timer has either stopped (after the rest of the last round) or its
\* deadline lies in the future.
C1_TickCatchesUpInOrder ==
  [][lastOp' = "tickInterval" =>
       LET here == <<intervalState.currentRound, intervalState.phase>>
           there == <<intervalState'.currentRound, intervalState'.phase>>
           n == Len(crossed')
       IN /\ n > 0 => crossed'[1] = here
          /\ \A i \in 1..(n - 1) : crossed'[i + 1] = NextInSession(crossed'[i])
          /\ intervalState'.running =>
               /\ now < intervalState'.phaseEndsAt
               /\ there = (IF n = 0 THEN here ELSE NextInSession(crossed'[n]))
               /\ intervalState'.currentRound >= intervalState.currentRound
          /\ (intervalState.running /\ ~intervalState'.running) =>
               /\ n > 0
               /\ crossed'[n][2] = "rest"
               /\ crossed'[n][1] >= intervalSettings.rounds
          /\ (intervalState.running /\ now < intervalState.phaseEndsAt) => n = 0
  ]_vars

\* a periodic tick that caught up over two or more phase boundaries
C1_Witness ==
  /\ lastOp = "tickInterval"
  /\ Len(crossed) >= 2

\* C3: in a session started at ivT0 with work = rest = d seconds and neither
\* paused nor re-configured since, the deadline of the N-th phase is
\* ivT0 + N * d * 1000 ms, whenever the ticks arrived.
C3_NoDriftAccumulation ==
  (intervalState.running /\ ivT0 # NULL /\ intervalSettings.work = intervalSettings.rest)
  => LET d == intervalSettings.work
         N == 2 * (intervalState.currentRound - 1)
              + (IF intervalState.phase = "work" THEN 1 ELSE 2)
     IN intervalState.phaseEndsAt = ivT0 + N * d * MsPerSec

\* the third phase of such a session, entered by a tick that came late
C3_Witness ==
  /\ lastOp = "tickInterval"
  /\ intervalState.running /\ ivT0 # NULL
  /\ intervalSettings.work = intervalSettings.rest
  /\ intervalState.currentRound = 2
  /\ Len(crossed) = 1
  /\ now > ivT0 + 2 * intervalSettings.work * MsPerSec

\* C5: a countdown started at cdT0 with cdD seconds: a periodic tick before
\* cdT0 + cdD * 1000 leaves it running with timeRemaining =
\* ceil((cdT0 + cdD * 1000 - now) / 1000) and emits nothing; the first periodic
\* tick at or after that time completes it and emits the completion cue once;
\* once completed nothing emits a further cue; no countdown emits two.
C5_CountdownCompletesOnce ==
  [][/\ (lastOp' = "tickCountdown" /\ countdownState.running /\ cdT0 # NULL) =>
          LET deadline == cdT0 + cdD * MsPerSec
          IN IF now < deadline
             THEN /\ countdownState'.running
                  /\ countdownState'.timeRemaining = CeilSeconds(deadline - now)
                  /\ ~countdownDone'
                  /\ cdSignals' = cdSignals
             ELSE /\ ~countdownState'.running
                  /\ ~countdownState'.paused
                  /\ countdownDone'
                  /\ CountOf(signals', "countdown-complete") = 1
                  /\ cdSignals' = cdSignals + 1
     /\ countdownDone => cdSignals' \in {cdSignals, 0}
     /\ cdSignals' <= 1
  ]_vars

\* a countdown completed by a periodic tick, with its one completion cue
C5_Witness ==
  /\ lastOp = "tickCountdown"
  /\ countdownDone /\ ~countdownState.running
  /\ cdSignals = 1

\* C6: resuming at time now a timer that was paused with r ms to go sets its
\* deadline to now + r, for the interval timer and for the countdown.
C6_PauseResumeKeepsRemaining ==
  /\ (lastOp = "resumeInterval" /\ ivRemAtPause > 0) =>
        intervalState.phaseEndsAt = now + ivRemAtPause
  /\ (lastOp = "resumeCountdown" /\ cdRemAtPause > 0) =>
        countdownState.endAt = now + cdRemAtPause

\* saving the memory m at time t and loading it at once
RoundTrip(m, t) == Constructor(SaveData(m, t).storage, t)

\* no running timer's deadline has passed without a tick
NotOverdue ==
  /\ intervalState.running => now < intervalState.phaseEndsAt
  /\ countdownState.running => now < countdownState.endAt

\* View, with the remaining time of a running timer taken from its deadline
ViewByDeadline(m, t) ==
  [View(m) EXCEPT
     !.iRemaining = IF m.intervalState.running
                    THEN SecondsLeft(m.intervalState.phaseEndsAt, t) ELSE @,
     !.cRemaining = IF m.countdownState.running
                    THEN SecondsLeft(m.countdownState.endAt, t) ELSE @]

\* C8 as stated: saving any reachable state and loading it at once gives the
\* same status, round, phase and deadline, and the remaining time that goes
\* with them.
C8_RoundTripEveryState ==
  View(RoundTrip(Mem, now)) = ViewByDeadline(Mem, now)

\* C8 (amended): when no running timer's deadline has already passed, saving
\* a state and loading it at once gives the same status, round and phase,
\* the same deadline for a running timer and the same remaining time for one
\* that is not running; a running timer's remaining time is the one its
\* deadline gives at the time of loading.
C8_RoundTripWhenNotOverdue ==
  NotOverdue => View(RoundTrip(Mem, now)) = ViewByDeadline(Mem, now)

\* a running interval timer in its rest phase, its deadline ahead, whose
\* remaining time was last computed more than a second ago
C8_Witness ==
  /\ intervalState.running /\ intervalState.phase = "rest"
  /\ now < intervalState.phaseEndsAt
  /\ intervalState.timeRemaining # SecondsLeft(intervalState.phaseEndsAt, now)

\* the page regains visibility at time t and re-synchronises
ResyncTick(m, t) == HandleVisibilityChange([m EXCEPT !.appVisible = TRUE], t, TRUE)

\* C9: closing the page while a timer is running and opening it again after
\* a gap gives the status, round, phase, deadline and remaining time that
\* the page would have had if it had stayed loaded without ticks for that
\* gap and had then run the re-synchronising tick.
C9_ReloadEqualsSuspension ==
  [][(lastOp' = "load" /\ (intervalState.running \/ countdownState.running)) =>
       View(Mem)' = View(ResyncTick(PersistRuntimeData(Mem, now, TRUE), now'))
  ]_vars

\* a reload whose restore-time tick caught up over two or more phase boundaries
C9_Witness ==
  /\ lastOp = "load"
  /\ Len(crossed) >= 2

\* C2: the first tick() after startSession, when it comes at or after the
\* end of the whole session (never paused), completes the session.
C2_SingleLateTickCompletes ==
  [][(lastOp' = "tick" /\ bFirstTick /\ bT0 # NULL /\ session.active
      /\ now >= session.sessionEndsAt)
     => ~session'.active
  ]_vars

\* C4: a tick() that moves to the next phase sets phaseEndsAt to the previous
\* phaseEndsAt plus the duration of the phase it enters.
C4_PhaseDeadlineFromPreviousDeadline ==
  [][(lastOp' = "tick" /\ session'.active
      /\ <<session'.cycle, session'.phaseIndex>> # <<session.cycle, session.phaseIndex>>)
     => session'.phaseEndsAt =
          session.phaseEndsAt + DurationOf(session'.durations, session'.phaseIndex) * MsPerSec
  ]_vars

\* C7: resuming at time now a session paused with r_p ms of the phase and
\* r_s ms of the session to go sets phaseEndsAt = now + r_p and
\* sessionEndsAt = now + r_s and leaves it running in the cycle and phase it
\* was paused in.
C7_BreathPauseResumeExact ==
  [][/\ lastOp' = "resumeSession" =>
          /\ session'.active /\ ~session'.paused
          /\ session'.phaseEndsAt = now + bRemAtPause[1]
          /\ session'.sessionEndsAt = now + bRemAtPause[2]
          /\ session'.cycle = session.cycle
          /\ session'.phaseIndex = session.phaseIndex
     /\ (session.paused /\ session'.paused) =>
          /\ session'.cycle = session.cycle
          /\ session'.phaseIndex = session.phaseIndex
          /\ bRemAtPause'[1] = bRemAtPause[1]
          /\ bRemAtPause'[2] = bRemAtPause[2]
  ]_vars

\* a session resumed some time after it was paused in the middle of a phase
\* of its second cycle
C7_Witness ==
  /\ lastOp = "resumeSession"
  /\ session.cycle = 2
  /\ bRemAtPause[1] > 0
  /\ bRemAtPause[3]

\* C10: a session that is running or paused when the page is reloaded is in
\* the same status, cycle and phase, with the same deadlines and remaining
\* times, afterwards.
C10_BreathSessionSurvivesReload ==
  [][(lastOp' = "load" /\ session.active) => session' = session]_vars

\* C18: the phase an active session is in has a positive duration in the
\* session's durations; with durations 4/0/4/0 a tick that changes the phase
\* goes from inhale to exhale of the same cycle and from exhale to inhale of
\* the next cycle.
C18_ActivePhaseHasDuration ==
  [][/\ session'.active =>
          /\ session'.phaseIndex \in 0..(NumPhases - 1)
          /\ DurationOf(session'.durations, session'.phaseIndex) > 0
     /\ (/\ lastOp' = "tick" /\ session.active /\ session'.active
         /\ session.durations = [inhale |-> 4, holdIn |-> 0, exhale |-> 4, holdOut |-> 0]
         /\ <<session'.cycle, session'.phaseIndex>> # <<session.cycle, session.phaseIndex>>)
        => IF session.phaseIndex = 0
           THEN session'.phaseIndex = 2 /\ session'.cycle = session.cycle
           ELSE /\ session.phaseIndex = 2
                /\ session'.phaseIndex = 0
                /\ session'.cycle = session.cycle + 1
  ]_vars

\* a 4/0/4/0 session whose tick has just entered inhale of the second cycle
C18_Witness ==
  /\ lastOp = "tick"
  /\ session.active
  /\ session.durations = [inhale |-> 4, holdIn |-> 0, exhale |-> 4, holdOut |-> 0]
  /\ session.cycle = 2
  /\ session.phaseIndex = 0

\* seconds of the phases a session still has to run after the current one
RemainingPhaseSeconds(sess) ==
  LET inCycle == {i \in 0..(NumPhases - 1) : i > sess.phaseIndex}
      perCycle == sess.durations.inhale + sess.durations.holdIn
                  + sess.durations.exhale + sess.durations.holdOut
      SumFrom[i \in 0..NumPhases] ==
        IF i = NumPhases THEN 0
        ELSE (IF i \in inCycle THEN DurationOf(sess.durations, i) ELSE 0) + SumFrom[i + 1]
  IN SumFrom[0] + (sess.totalCycles - sess.cycle) * perCycle

\* C19: in every running state the session deadline is not earlier than the
\* deadline of the current phase plus the durations of all the phases that
\* are still to run.
C19_SessionDeadlineCoversPhases ==
  (session.active /\ ~session.paused) =>
    session.sessionEndsAt >=
      session.phaseEndsAt + MsPerSec * RemainingPhaseSeconds(session)

\* C20: currentRound is in 1..intervalSettings.rounds while the interval
\* timer is running or paused, and 0 while it is idle.
C20_RoundWithinRounds ==
  IF intervalState.running \/ intervalState.paused
  THEN /\ intervalState.currentRound >= 1
       /\ intervalState.currentRound <= intervalSettings.rounds
  ELSE intervalState.currentRound = 0

\* C11: while every storage write fails, a tick at or after the deadline still
\* completes the countdown, a tick past the last phase still completes the
\* interval timer, and start and pause still change the state in memory; no
\* timer stays Running because the snapshot could not be written
C11_TimersCompleteWithoutStorage ==
  [][/\ (/\ lastOp' = "tickCountdown"
         /\ countdownState.running
         /\ Truthy(countdownState.endAt)
         /\ now >= countdownState.endAt)
        => ~countdownState'.running
     /\ (/\ lastOp' = "tickInterval"
         /\ intervalState.running
         /\ Truthy(intervalState.phaseEndsAt)
         /\ TickIntervalLoop(intervalState, intervalSettings, now, FALSE, <<>>, <<>>).finished)
        => ~intervalState'.running
     /\ lastOp' = "pauseCountdown" => countdownState'.paused /\ ~countdownState'.running
     /\ lastOp' = "pauseInterval" => intervalState'.paused /\ ~intervalState'.running
     /\ lastOp' = "startInterval" => intervalState'.running
     /\ lastOp' = "startCountdown" => countdownState'.running \/ countdownDone'
    ]_vars
\* C12: constructing the Pomodoro app over a missing or malformed item (no
\* item, text that is not JSON, JSON null, an array, a scalar) does not throw
\* and leaves an idle timer with the default settings
C12_MalformedSnapshotLoadsIdle ==
  (lastOp \in {"init", "load"} /\ pomodoro.storage.kind # "object")
    => /\ ~pomodoro.crashed
       /\ ~pomodoro.state.isActive
       /\ ~pomodoro.timerInterval
       /\ pomodoro.settings = PomDefaultSettings
\* C13: the page holds a screen wake lock only while the countdown is Running
\* and the app is visible; after a pause, a reset, a new duration, the
\* completion or a hidden signal no wake lock is held, or becomes held, until
\* the countdown is Running and visible again
C13_WakeLockOnlyWhileRunningVisible ==
  wlHeld > 0 => countdownState.running /\ appVisible /\ docVisible

\* C14: however the visible signals and startCountdown interleave, at most one
\* wake-lock request is outstanding or held
C14_AtMostOneWakeLock == wlPending + wlHeld <= 1
\* C16: once the user has pressed pause or reset, the Pomodoro timer is not
\* active and no tick is scheduled, until the user presses start
C16_StoppedUntilStart ==
  pomStopped => ~pomodoro.state.isActive /\ ~pomodoro.timerInterval
\* C15: a reset (resetInterval, resetCountdown, resetSession) leaves the timer
\* Idle with its tick driver stopped; an Idle timer whose driver is stopped
\* stays so until the user starts it; a reset of an Idle timer changes nothing
C15_ResetStopsUntilStart ==
  [][/\ lastOp' = "resetInterval"
          => intervalState' = IdleIntervalState /\ ~intervalTimerInterval'
     /\ lastOp' = "resetCountdown"
          => /\ ~countdownState'.running /\ ~countdownState'.paused
             /\ countdownState'.endAt = NULL
             /\ countdownState'.timeRemaining = countdownState'.totalTime
             /\ ~countdownDone' /\ ~countdownInterval'
     /\ lastOp' = "resetSession"
          => session' = CreateIdleSession /\ ~breathTicker'
     /\ (intervalState = IdleIntervalState /\ ~intervalTimerInterval)
          => \/ intervalState' = IdleIntervalState /\ ~intervalTimerInterval'
             \/ lastOp' = "startInterval"
     /\ (/\ ~countdownState.running /\ ~countdownState.paused
         /\ ~countdownDone /\ ~countdownInterval)
          => \/ /\ ~countdownState'.running /\ ~countdownState'.paused
                /\ ~countdownDone' /\ ~countdownInterval'
             \/ lastOp' \in {"startCountdown", "repeatLastCountdown"}
     /\ (session = CreateIdleSession /\ ~breathTicker)
          => \/ session' = CreateIdleSession /\ ~breathTicker'
             \/ lastOp' = "startSession"
     /\ (lastOp' = "resetInterval" /\ intervalState = IdleIntervalState)
          => intervalState' = intervalState /\ btn' = btn
     /\ (/\ lastOp' = "resetCountdown"
         /\ ~countdownState.running /\ ~countdownState.paused /\ ~countdownDone)
          => /\ countdownState' = countdownState
             /\ countdownDone' = countdownDone
     /\ (lastOp' = "resetSession" /\ session = CreateIdleSession)
          => session' = session /\ breathBtn' = breathBtn
    ]_vars

C15_Witness ==
  /\ lastOp = "resetSession"
  /\ now > StartClock
  /\ session = CreateIdleSession
  /\ ~breathTicker

\* what a second reset could change: the session, the tick drivers, the
\* buttons and the persisted snapshot
AfterReset(m) ==
  [intervalState |-> m.intervalState,
   countdownState |-> m.countdownState,
   countdownDone |-> m.countdownDone,
   intervalTimerInterval |-> m.intervalTimerInterval,
   countdownInterval |-> m.countdownInterval,
   btn |-> m.btn,
   storage |-> m.storage]

\* C17: a second reset right after a reset, at the same time or later, leaves
\* the session, the tick driver and the persisted snapshot as the first left
\* them, for resetInterval, resetCountdown and resetSession
C17_ResetTwiceIsResetOnce ==
  \A d \in {0} \cup ClockGaps :
    /\ LET once == ResetInterval(Mem, now, TRUE)
       IN /\ ~once.thrown
          /\ AfterReset(ResetInterval(once, now + d, TRUE)) = AfterReset(once)
    /\ LET once == ResetCountdown(Mem, now)
       IN /\ ~once.thrown
          /\ AfterReset(ResetCountdown(once, now + d)) = AfterReset(once)
    /\ ResetSession(ResetSession(BreathMem)) = ResetSession(BreathMem)

C17_Witness ==
  /\ lastOp = "resetCountdown"
  /\ countdownState.totalTime > 0
  /\ storage.runtime.countdown.some
  /\ lastCompletedCountdown > 0

\* C21: in every reachable state of the Pomodoro timer, loaded and migrated
\* ones included, the cycle counter pomodoroCount is in 1..targetPomodoros
C21_CountWithinTarget ==
  ~pomodoro.crashed =>
    pomodoro.state.pomodoroCount \in 1..GetTargetPomodoros(pomodoro)


\* C22: with targetPomodoros = 4, after 4 complete work+break advances the
\* Pomodoro timer is in a terminal state: no session runs until reset
C22_CompletedAfterTarget ==
  [][(/\ GetTargetPomodoros(pomodoro) = 4
      /\ pomodoro.state.totalWorkSessions = 4
      /\ pomodoro.state.sessionType = "work"
      /\ lastOp = "tickTimer"
      /\ ~pomodoro.state.isActive
      /\ lastOp' # "resetTimer")
     => ~pomodoro'.state.isActive]_vars

\* C23: a countdown that has completed stays completed under every handler
\* and event except resetCountdown
C23_CompletedUntilReset ==
  [][(countdownDone /\ lastOp' # "resetCountdown") => countdownDone']_vars

\* C24: a countdown that reached zero has emitted its completion cue exactly
\* once, and so has the handler whose tick finished the last round of an
\* interval session, whichever tick found the completion
C24_CompletionSignalledOnce ==
  /\ countdownDone => cdSignals = 1
  /\ (Len(crossed) > 0 /\ ~intervalState.running) =>
        CountOf(signals, "interval-complete") = 1

\* C25: an instance of the Pomodoro app calls Notification.requestPermission
\* at most once, and only in the handler of a click on Start: never in the
\* constructor and never in a timer callback
C25_PermissionOnlyOnUserStart ==
  [][/\ pomodoro'.permissionRequests <= 1
     /\ lastOp' = "load" => pomodoro'.permissionRequests = 0
     /\ (lastOp' # "load" /\ pomodoro'.permissionRequests > pomodoro.permissionRequests)
          => lastOp' = "startTimer"
  ]_vars

\* C26: startCountdown on a countdown with timeRemaining <= 0 that is not
\* paused, and startSession over durations with no phase above 0, change
\* nothing: the same session state, no tick driver started, no wake lock
\* requested, in a browser with and without the Screen Wake Lock API; the
\* form fields of the Breathing app never hold such durations
C26_InvalidStartChangesNothing ==
  /\ (countdownState.timeRemaining <= 0 /\ ~countdownState.paused) =>
       \A api \in BOOLEAN :
         LET m0 == [Mem EXCEPT !.wakeLockApi = api]
         IN StartCountdown(m0, now) = m0
  /\ StartSessionWith(BreathMem, now, ZeroDurations) = BreathMem
  /\ HasActiveDuration(ReadDurationsFromInputs(BreathMem))

\* a countdown that has run out: timeRemaining 0, not paused
C26_Witness ==
  /\ countdownDone
  /\ countdownState.timeRemaining = 0
  /\ ~countdownState.paused /\ ~countdownState.running
  /\ lastCompletedCountdown > 0

\* the time the last rest phase of the running interval session ends
IntervalEndsAt ==
  intervalState.phaseEndsAt
    + MsPerSec * ((IF intervalState.phase = "work" THEN intervalSettings.rest ELSE 0)
                  + Max(0, intervalSettings.rounds - intervalState.currentRound)
                    * (intervalSettings.work + intervalSettings.rest))

\* the time the last phase of the running breathing session ends
BreathEndsAt == session.phaseEndsAt + MsPerSec * RemainingPhaseSeconds(session)

C28_RemainingNeverIncreases ==
  /\ [](countdownState.timeRemaining >= 0 /\ intervalState.timeRemaining >= 0)
  /\ [][(/\ countdownState.running /\ countdownState'.running
          /\ countdownState'.endAt = countdownState.endAt)
         => countdownState'.timeRemaining <= countdownState.timeRemaining]_vars
  /\ [][(/\ intervalState.running /\ intervalState'.running
          /\ intervalState'.phase = intervalState.phase
          /\ intervalState'.currentRound = intervalState.currentRound)
         => intervalState'.timeRemaining <= intervalState.timeRemaining]_vars

\* a running countdown of 3 s that a tick has brought down to its last second
C28_Witness ==
  /\ countdownState.running
  /\ lastOp = "tickCountdown"
  /\ countdownState.totalTime = 3
  /\ countdownState.timeRemaining = 1

\* C29: pauseInterval and pauseCountdown called while their timer is not
\* running (idle, paused or completed) change nothing of what the session
\* shows (flags, timeRemaining, round, phase, deadline), and a start after
\* such a pause does what a start without it does.
C29_PauseWhenNotRunningIsNoOp ==
  /\ ~intervalState.running => View(PauseInterval(Mem, now)) = View(Mem)
  /\ ~countdownState.running =>
       /\ View(PauseCountdown(Mem, now)) = View(Mem)
       /\ View(StartCountdown(PauseCountdown(Mem, now), now)) = View(StartCountdown(Mem, now))

\* C30: pauseSession of a session that is not running, resumeSession of one
\* that is not paused, and tick of an idle or paused session leave the
\* session (status, cycle, phaseIndex, deadlines, remaining snapshots), the
\* ticker and everything else of the Breathing app as they were.
C30_GuardedCallsChangeNothing ==
  /\ (~session.active \/ session.paused) => PauseSession(BreathMem, now) = BreathMem
  /\ (~session.active \/ ~session.paused) => ResumeSession(BreathMem, now) = BreathMem
  /\ (~session.active \/ session.paused) => Tick(BreathMem, now) = BreathMem

\* a paused session whose phase deadline the clock has passed: a tick that
\* did not look at paused would move it to the next phase
C30_Witness ==
  /\ session.active
  /\ session.paused
  /\ ~breathTicker
  /\ now >= session.phaseEndsAt
  /\ session.phaseRemainingMs > 0

\* the handlers that change the status of the interval timer or the countdown
StatusTransitionOps ==
  {"startInterval", "resumeInterval", "pauseInterval", "resetInterval",
   "startCountdown", "resumeCountdown", "pauseCountdown", "resetCountdown",
   "repeatLastCountdown"}

\* localStorage holds the snapshot of the state in memory
SnapshotIsCurrent == storage.runtime = CaptureRuntimeState(Mem)

\* C31: a periodic tick that leaves its timer running writes the snapshot
\* only when the last write is at least 1000 ms old; after a start, pause,
\* resume or reset, after the tick that completes a timer, after a hidden
\* signal and after pagehide / beforeunload the stored snapshot is the one of
\* the state in memory, however recent the last write was.
C31_ThrottledTicksForcedTransitions ==
  /\ [][(/\ lastRuntimeSaveAt' # lastRuntimeSaveAt
          /\ \/ lastOp' = "tickInterval" /\ intervalState'.running
             \/ lastOp' = "tickCountdown" /\ countdownState'.running)
         => now' - lastRuntimeSaveAt >= SaveThrottleMs]_vars
  /\ [](lastOp \in StatusTransitionOps => SnapshotIsCurrent)
  /\ []((lastOp = "tickInterval" /\ ~intervalState.running) => SnapshotIsCurrent)
  /\ []((lastOp = "tickCountdown" /\ ~countdownState.running) => SnapshotIsCurrent)
  /\ [][(docVisible /\ ~docVisible') => SnapshotIsCurrent']_vars
  /\ [](PersistRuntimeData(Mem, now, TRUE).storage.runtime = CaptureRuntimeState(Mem))

\* a countdown of 3 s paused 500 ms after its start, inside the throttle
\* window of the write the start made
C31_Witness ==
  /\ lastOp = "pauseCountdown"
  /\ cdRemAtPause = 2500
  /\ countdownState.totalTime = 3
  /\ storage.runtime.countdown.paused
  /\ lastRuntimeSaveAt = now

\* what the visibilitychange handler would do if the hidden document became
\* visible now, in a browser with the Screen Wake Lock API
VisibleAgain ==
  HandleVisibilityChange(DocumentVisibility([Mem EXCEPT !.wakeLockApi = TRUE], TRUE),
                         now, TRUE)

\* C32: the handler that runs when the document becomes visible again, and
\* the constructor restoring a running snapshot, emit no cue (beep, vibration,
\* notification), whatever phase boundaries or countdown end their catch-up
\* tick crosses; and the visibility handler ticks before it asks for the wake
\* lock: it asks for one exactly when the countdown still runs after the tick.
C32_CatchUpTicksAreSilent ==
  /\ [][((~docVisible /\ docVisible') \/ lastOp' = "load") => signals' = <<>>]_vars
  /\ [](~docVisible =>
          /\ VisibleAgain.signals = <<>>
          /\ VisibleAgain.wlPending =
               wlPending + (IF VisibleAgain.countdownState.running /\ appVisible
                            THEN 1 ELSE 0))

\* the document became visible again and the catch-up tick of the running
\* interval timer left at least one phase behind, without a cue
C32_Witness ==
  /\ docVisible
  /\ lastOp = "other"
  /\ Len(crossed) > 0
  /\ signals = <<>>
  /\ intervalState.running

\* C33: addCountdownTime(s) with s > 0 moves the deadline of a running
\* countdown by s * 1000 ms and leaves it running; it adds s to timeRemaining
\* and totalTime of a countdown that is not running, whose endAt stays null;
\* it leaves the interval timer alone; with s <= 0 it changes nothing.
C33_AddTimeMovesDeadline ==
  /\ \A s \in AddSeconds :
       \E m \in {AddCountdownTime(Mem, now, s)} :
          /\ m.intervalState = intervalState
          /\ m.intervalTimerInterval = intervalTimerInterval
          /\ IF countdownState.running
             THEN /\ m.countdownState.running
                  /\ m.countdownState.endAt = countdownState.endAt + s * MsPerSec
             ELSE /\ ~m.countdownState.running
                  /\ m.countdownState.paused = countdownState.paused
                  /\ m.countdownState.timeRemaining = countdownState.timeRemaining + s
                  /\ m.countdownState.totalTime = countdownState.totalTime + s
                  /\ countdownState.endAt = NULL
                  /\ m.countdownState.endAt = NULL
  /\ \A s \in {0, -60} : AddCountdownTime(Mem, now, s) = Mem

\* a minute was added to a running countdown of 3 s
C33_Witness ==
  /\ countdownState.running
  /\ countdownState.totalTime = 63
  /\ countdownState.endAt > now + 60 * MsPerSec
  /\ lastOp = "other"

\* sessions getNextPhase is tried on: every choice of phases with duration 0
\* (the all-zero one included) and 1..MaxPhaseCycles cycles
PhaseSearchSessions ==
  {[CreateIdleSession EXCEPT !.active = TRUE, !.totalCycles = n, !.durations = d] :
     n \in 1..MaxPhaseCycles,
     d \in [{"inhale", "holdIn", "exhale", "holdOut"} -> {0, 2}]}

\* the place of phase i of cycle c in session order
PositionOf(c, i) == c * NumPhases + i

\* the positions after (cycle, phaseIndex) that getNextPhase may return
LaterActivePositions(sess, cycle, phaseIndex) ==
  {p \in (cycle..sess.totalCycles) \X (0..(NumPhases - 1)) :
     /\ PositionOf(p[1], p[2]) > PositionOf(cycle, phaseIndex)
     /\ DurationOf(sess.durations, p[2]) > 0}

\* getNextPhase(cycle, phaseIndex) of sess is the first of those positions,
\* at most 2 * phases.length places on, and null when there is none
IsFirstLaterActive(sess, cycle, phaseIndex) ==
  \E r \in {GetNextPhase(sess, cycle, phaseIndex)} :
    \E later \in {LaterActivePositions(sess, cycle, phaseIndex)} :
      IF later = {}
      THEN ~r.found
      ELSE /\ r.found
           /\ <<r.cycle, r.phaseIndex>> \in later
           /\ \A p \in later : PositionOf(r.cycle, r.phaseIndex) <= PositionOf(p[1], p[2])
           /\ PositionOf(r.cycle, r.phaseIndex) - PositionOf(cycle, phaseIndex)
                <= 2 * NumPhases

\* C34: getNextPhase(cycle, phaseIndex) returns the first position after
\* (cycle, phaseIndex) in session order whose phase has a duration above 0
\* and whose cycle is at most totalCycles, and null when there is none; the
\* position it returns is at most 2 * phases.length places on. For the
\* session on the page and for every session of PhaseSearchSessions.
C34_NextPhaseIsFirstActive ==
  /\ session.active => IsFirstLaterActive(session, session.cycle, session.phaseIndex)
  /\ \A sess \in PhaseSearchSessions :
       \A cycle \in 1..sess.totalCycles, phaseIndex \in 0..(NumPhases - 1) :
          IsFirstLaterActive(sess, cycle, phaseIndex)

\* a tick has moved a session with durations 2/0/2/0 from inhale to exhale,
\* over the hold that has no duration
C34_Witness ==
  /\ session.active
  /\ lastOp = "tick"
  /\ session.phaseIndex = 2
  /\ session.durations.holdIn = 0
  /\ session.cycle = 1

\* C35: saveSettings with changed settings (the only step but a page load
\* that changes them), on a timer that is not active and shows the full
\* duration of its session type by the settings before the edit, leaves
\* timeRemaining at the full duration the new settings give that session type.
C35_SaveSettingsResetsInitialTimer ==
  [][(/\ pomodoro'.settings # pomodoro.settings
      /\ lastOp' # "load"
      /\ ~pomodoro.state.isActive
      /\ pomodoro.state.timeRemaining = GetDurationForSession(pomodoro) * SecPerMin)
     => pomodoro'.state.timeRemaining = GetDurationForSession(pomodoro') * SecPerMin]_vars

\* the interval timer after the tick at the end of its current phase (resumed
\* first when it is paused), in the memory m
AtEndOfPhase(m) ==
  LET r == IF m.intervalState.paused THEN StartInterval(m, now) ELSE m
  IN TickInterval(r, Max(now, r.intervalState.phaseEndsAt), FALSE, FALSE).intervalState

\* the breathing session after the tick at the end of its current phase
\* (resumed first when it is paused), in the memory b
AtEndOfBreathPhase(b) ==
  LET r == ResumeSession(b, now)
  IN Tick(r, Max(now, r.session.phaseEndsAt)).session

\* C36: an edit of the settings while a session is running or paused changes
\* nothing of what the session does next: the interval timer enters the same
\* phase of the same round with the same deadline, or finishes, as without
\* the edit, and so does the breathing session.
C36_EditsLeaveSessionAlone ==
  /\ (intervalState.running \/ intervalState.paused) =>
       \A w \in WorkInputs, r \in RestInputs, n \in RoundsInputs :
          AtEndOfPhase(SaveIntervalSettings(Mem, now, [work |-> w, rest |-> r, rounds |-> n]))
            = AtEndOfPhase(Mem)
  /\ session.active =>
       \A c \in BreathCyclesInputs, d \in BreathDurationInputs :
          AtEndOfBreathPhase(DurationChange(BreathMem, c, d)) = AtEndOfBreathPhase(BreathMem)

\* C37: a session that is active and not paused has its ticker scheduled, in
\* every reachable state, also after beforeunload and pagehide events that
\* leave the page alive.
C37_RunningSessionHasTicker ==
  (session.active /\ ~session.paused) => breathTicker

\* C38: while the countdown display is in its done state the countdown is
\* neither running nor paused, timeRemaining is 0 and the Start button is
\* disabled, in every reachable state.
C38_DoneMeansFinished ==
  countdownDone =>
    /\ ~countdownState.running
    /\ ~countdownState.paused
    /\ countdownState.timeRemaining = 0
    /\ btn.countdownStartBtn

\* C39: in every reachable state, after a load over any snapshot too, no
\* timer is both running and paused, a running timer has a deadline that the
\* guard of its tick accepts, and the tick driver of a timer is scheduled
\* exactly while the timer is running.
C39_RunningHasLiveDeadline ==
  /\ ~(intervalState.running /\ intervalState.paused)
  /\ ~(countdownState.running /\ countdownState.paused)
  /\ intervalState.running => Truthy(intervalState.phaseEndsAt)
  /\ countdownState.running => Truthy(countdownState.endAt)
  /\ intervalTimerInterval <=> intervalState.running
  /\ countdownInterval <=> countdownState.running

\* C40: absent a re-enabling by the user, no alarm is triggered twice for the same
\* calendar day, and an alarm that does not repeat is triggered at most once in all
\* and is disabled afterwards, over any sequence of checks, late checks and reloads.
C40_AlarmOncePerDay ==
  /\ \A i, j \in DOMAIN alarmApp.triggered :
       (i # j /\ alarmApp.triggered[i].id = alarmApp.triggered[j].id)
         => /\ alarmApp.triggered[i].date # alarmApp.triggered[j].date
            /\ ~alarmApp.triggered[i].once
  /\ \A k \in DOMAIN alarmApp.alarms :
       (alarmApp.alarms[k].days = {}
        /\ \E i \in DOMAIN alarmApp.triggered :
             alarmApp.triggered[i].id = alarmApp.alarms[k].id)
         => ~alarmApp.alarms[k].enabled

====
